---- MODULE Spec2Model ----
(***************************************************************************)
(* Model of the query compiler of @ackplus/nest-crud: the predicate        *)
(* compiler (WhereQueryBuilder), the join planner (JoinQueryBuilder) and   *)
(* the alias / column resolver (QueryBuilderHelper), and FindQueryBuilder, *)
(* which owns one of each and one query builder.                           *)
(*                                                                         *)
(* Strings are sequences of chunks: a chunk is one of the special          *)
(* characters ".", "_", the identifier quote, or a maximal run of other    *)
(* characters.  Template strings are concatenations of such sequences, so  *)
(* split('.'), replace(/\./g, '_') and the removal of quotes are computed  *)
(* on the text and not assumed.                                            *)
(***************************************************************************)
EXTENDS Integers, Sequences, FiniteSets, TLC

VARIABLES
    dbType,              \* QueryBuilderHelper.dbType
    paramIndex,          \* WhereQueryBuilder.paramIndex
    wheres,              \* builder: the andWhere(query, params) calls, in order
    joins,               \* builder: the leftJoin / innerJoin calls, in order
    selectedFields,      \* QueryBuilderHelper.selectedFields (insertion order)
    entityRelationsHash, \* QueryBuilderHelper.entityRelationsHash
    calls,               \* number of calls made on this instance
    op,                  \* the last call made
    whereIn,             \* the filter given to the last where call
    whereOut,            \* what the last where call returned: query, params, err
    relIn,               \* the relation specification given to the last join call
    relOut,              \* what the last join call did: emitted joins, err
    deleteDateColumn,    \* repository.metadata.deleteDateColumn.propertyName (<<>>: none)
    findOptions,         \* builder: the options of the last setFindOptions call
    orderBys,            \* builder: the addOrderBy(field, direction) calls, in order
    selects,             \* builder: the list of the last select call
    optIn,               \* the options given to the last FindQueryBuilder.build call
    findOut,             \* what that call did: the builder calls it made, in order; err
    requests             \* CrudService: the findMany / findOne calls in progress

vars == <<dbType, paramIndex, wheres, joins, selectedFields, entityRelationsHash,
          calls, op, whereIn, whereOut, relIn, relOut, deleteDateColumn, findOptions,
          orderBys, selects, optIn, findOut, requests>>

\* the state of the one instance the calls of Spec are made on
instance == <<dbType, paramIndex, wheres, joins, selectedFields, entityRelationsHash,
              calls, op, whereIn, whereOut, relIn, relOut, deleteDateColumn, findOptions,
              orderBys, selects, optIn, findOut>>

----------------------------------------------------------------------------
(* Strings *)

DOT == "."
US == "_"

EmptyMap == [k \in {} |-> <<>>]

\* Object.assign(target, source)
Assign(target, source) ==
    [k \in DOMAIN target \cup DOMAIN source |->
        IF k \in DOMAIN source THEN source[k] ELSE target[k]]

RECURSIVE SplitFrom(_, _, _, _)
SplitFrom(s, i, cur, acc) ==
    IF i > Len(s) THEN Append(acc, cur)
    ELSE IF s[i] = DOT THEN SplitFrom(s, i + 1, <<>>, Append(acc, cur))
    ELSE SplitFrom(s, i + 1, Append(cur, s[i]), acc)

\* String.prototype.split('.'): the segments, each a string
Split(s) == SplitFrom(s, 1, <<>>, <<>>)

RECURSIVE JoinFrom(_, _, _)
JoinFrom(segs, i, sep) ==
    IF i > Len(segs) THEN <<>>
    ELSE IF i = 1 THEN segs[1] \o JoinFrom(segs, 2, sep)
    ELSE <<sep>> \o segs[i] \o JoinFrom(segs, i + 1, sep)

\* Array.prototype.join(sep) of an array of strings
JoinStr(segs, sep) == JoinFrom(segs, 1, sep)

\* a flattening that keeps the first chunk only
ReplaceDotsMutant(s) == <<s[1]>>

\* String.prototype.replace(/\./g, '_')
ReplaceDots(s) == [i \in 1..Len(s) |-> IF s[i] = DOT THEN US ELSE s[i]]

\* Array.prototype.slice(0, n)
Slice(seq, n) == SubSeq(seq, 1, n)

\* a string of chunks as the text of a message
RECURSIVE Text(_, _)
Text(s, i) == IF i > Len(s) THEN "" ELSE s[i] \o Text(s, i + 1)

----------------------------------------------------------------------------
(* Entity metadata supplied by the ORM: the relations of the entities of   *)
(* the test suite, with a few columns each                                 *)

RootEntity == "User"
rootAlias == <<"User">>

RelationsOf(e) ==
    CASE e = "User" -> (<<"profile">> :> "Profile") @@ (<<"posts">> :> "Post")
      [] e = "Profile" -> (<<"user">> :> "User") @@ (<<"addresses">> :> "ProfileAddress")
      [] e = "ProfileAddress" -> (<<"profile">> :> "Profile") @@ (<<"country">> :> "Country")
      [] e = "Post" -> (<<"user">> :> "User") @@ (<<"comments">> :> "Comment")
      [] OTHER -> EmptyMap

ColumnsOf(e) ==
    CASE e = "User" -> << <<"id">>, <<"name">>, <<"status">> >>
      [] e = "Profile" -> << <<"id">>, <<"age">>, <<"bio">> >>
      [] e = "ProfileAddress" -> << <<"id">>, <<"city">>, <<"state">> >>
      [] e = "Post" -> << <<"id">>, <<"title">> >>
      [] e = "Country" -> << <<"id">>, <<"name">>, <<"code">> >>
      [] OTHER -> << <<"id">> >>

PrimaryColumnsOf(e) == << <<"id">> >>

\* QueryBuilderHelper.getEntityColumns
getEntityColumns(e) == [columns |-> ColumnsOf(e), primaryColumns |-> PrimaryColumnsOf(e)]

NoEntity == "<none>"

\* the reduce of getRelationMetadata: the entity reached by following the
\* segments fields[i..] from a relation list (NoEntity once a segment is unknown)
RECURSIVE ReduceRelations(_, _, _)
ReduceRelations(fields, i, rels) ==
    IF i > Len(fields) THEN NoEntity
    ELSE LET found == DOMAIN rels # {} /\ fields[i] \in DOMAIN rels
             relationMetadata == IF found THEN rels[fields[i]] ELSE NoEntity
             relations == IF found THEN RelationsOf(relationMetadata) ELSE EmptyMap
         IN  IF i = Len(fields) THEN relationMetadata
             ELSE ReduceRelations(fields, i + 1, relations)

NoPath == <<"<undefined>">>

\* the entity a relation path leads to: found.inverseEntityMetadata for a
\* single segment, reduced.relationMetadata for a nested path
TargetOf(fields) ==
    IF Len(fields) = 1
    THEN (IF fields[1] \in DOMAIN RelationsOf(RootEntity)
          THEN RelationsOf(RootEntity)[fields[1]] ELSE NoEntity)
    ELSE ReduceRelations(fields, 1, RelationsOf(RootEntity))

\* path: `${rootAlias}.${fields[0]}` for a single segment; for a nested path
\* the memoized parent's alias with '_' for '.', then '.' and the name, and
\* undefined when the parent path is not in the memo map
PathOf(field, fields, parentPath, hash) ==
    IF Len(fields) = 1 THEN rootAlias \o <<DOT>> \o fields[1]
    ELSE IF parentPath # <<>> /\ parentPath \in DOMAIN hash
    THEN (IF hash[parentPath].alias # <<>>
          THEN ReplaceDots(hash[parentPath].alias) \o <<DOT>> \o fields[Len(fields)]
          ELSE field)
    ELSE NoPath

\* allowedRelation with allowedColumns, as it is saved and returned
AllowedRelation(field, fields, cols, hash) ==
    [alias |-> field, name |-> fields[Len(fields)],
     path |-> PathOf(field, fields, JoinStr(Slice(fields, Len(fields) - 1), DOT), hash),
     columns |-> cols.columns, nested |-> Len(fields) # 1,
     primaryColumns |-> cols.primaryColumns, allowedColumns |-> cols.columns]

Resolved(field, toSave, hash) ==
    [found |-> TRUE, rel |-> toSave, hash |-> Assign(hash, field :> toSave)]

Unresolved(hash) ==
    [found |-> FALSE, rel |-> AllowedRelation(<<>>, <<NoPath>>, getEntityColumns(NoEntity), hash),
     hash |-> hash]

ResolveTarget(field, fields, relationMetadata, hash) ==
    IF relationMetadata # NoEntity
    THEN Resolved(field, AllowedRelation(field, fields, getEntityColumns(relationMetadata), hash),
                  hash)
    ELSE Unresolved(hash)

ResolveFields(field, fields, hash) == ResolveTarget(field, fields, TargetOf(fields), hash)

\* QueryBuilderHelper.getRelationMetadata: [found, rel, hash], hash being the
\* memo map after the call (rel is meaningful only when found)
getRelationMetadata(field, hash) ==
    IF field \in DOMAIN hash
    THEN [found |-> TRUE, rel |-> hash[field], hash |-> hash]
    ELSE ResolveFields(field, Split(field), hash)

----------------------------------------------------------------------------
(* Alias / column resolver *)

\* QueryBuilderHelper.getIdentifierQuote
\* (the two quote characters are written as the chunks BACKTICK and DQUOTE)
getIdentifierQuote(db) == IF db \in {"mysql", "mariadb"} THEN "BACKTICK" ELSE "DQUOTE"

QuoteParts(parts, quote) ==
    JoinStr([i \in 1..Len(parts) |-> <<quote>> \o parts[i] \o <<quote>>], DOT)

\* normalizeColumnName(name, quote): every '.'-separated part is quoted
normalizeColumnName(name, quote) == QuoteParts(Split(name), quote)

\* the default branch of getFieldWithAlias, relation being what
\* getRelationMetadata(field) returned
NestedField(cols, relation, quote) ==
    [col |-> IF relation.found
             THEN normalizeColumnName(relation.rel.path, quote)
             ELSE normalizeColumnName(JoinStr(Slice(cols, Len(cols) - 1), US)
                                        \o <<DOT>> \o cols[Len(cols)], quote),
     hash |-> relation.hash]

FieldWithAlias(field, cols, quote, hash) ==
    IF Len(cols) = 1
    THEN [col |-> normalizeColumnName(rootAlias \o <<DOT>> \o field, quote), hash |-> hash]
    ELSE NestedField(cols, getRelationMetadata(field, hash), quote)

\* QueryBuilderHelper.getFieldWithAlias (useDbField = false): [col, hash]
getFieldWithAlias(field, db, hash) ==
    FieldWithAlias(field, Split(field), getIdentifierQuote(db), hash)

----------------------------------------------------------------------------
(* Filter expression trees                                                 *)
(*   value     : [arr, items]   a scalar (arr = FALSE, one item), an array  *)
(*               of scalars, or undefined (arr = FALSE, no item)           *)
(*   entry     : [key, vk, items, ops, val]  one key of a WhereObject; vk   *)
(*               is the JavaScript kind of its value: "array" (of          *)
(*               conditions: items, or of scalars: val), "object" (an      *)
(*               operator map: ops, in key order) or "scalar" (val)        *)
(*   condition : [kind, entries, items]  undefined, an object (entries in  *)
(*               key order) or an array of conditions                      *)

Scalar(v) == [arr |-> FALSE, items |-> <<v>>]
ArrayOf(vs) == [arr |-> TRUE, items |-> vs]
NoValue == [arr |-> FALSE, items |-> <<>>]

Undefined == [kind |-> "undefined", entries |-> <<>>, items |-> <<>>]
Obj(entries) == [kind |-> "object", entries |-> entries, items |-> <<>>]
Arr(items) == [kind |-> "array", entries |-> <<>>, items |-> items]

Lit(f, v) == [key |-> <<f>>, vk |-> "scalar", items |-> <<>>, ops |-> <<>>, val |-> Scalar(v)]
Ops(f, ops) == [key |-> <<f>>, vk |-> "object", items |-> <<>>, ops |-> ops, val |-> NoValue]
Group(k, items) == [key |-> <<k>>, vk |-> "array", items |-> items, ops |-> <<>>, val |-> NoValue]
\* a $and / $or key whose value is one filter object instead of an array
GroupObject(k, cond) ==
    [key |-> <<k>>, vk |-> "object", items |-> <<cond>>, ops |-> <<>>, val |-> NoValue]
OpV(o, v) == [op |-> o, val |-> v]

----------------------------------------------------------------------------
(* SQL text: a sequence of tokens [t, s] *)

Tok(t, s) == [t |-> t, s |-> s]
LP == Tok("(", <<"(">>)
RP == Tok(")", <<")">>)
KwAnd == Tok("kw", <<"AND">>)
KwOr == Tok("kw", <<"OR">>)
ColTok(c) == Tok("col", c)
OpTok(o) == Tok("op", <<o>>)
ParamTok(p) == Tok("param", p)          \* :name
SpreadTok(p) == Tok("spread", p)        \* :...name
LowerParamTok(p) == Tok("lower", p)     \* LOWER(:name)
ArrayTok(p) == Tok("array", p)          \* ARRAY[:...name]::text[]
NumTok(n) == Tok("num", <<n>>)

\* `(${query})`
Paren(q) == <<LP>> \o q \o <<RP>>

RECURSIVE JoinQueryFrom(_, _, _)
JoinQueryFrom(parts, i, sep) ==
    IF i > Len(parts) THEN <<>>
    ELSE IF i = 1 THEN parts[1] \o JoinQueryFrom(parts, 2, sep)
    ELSE <<sep>> \o parts[i] \o JoinQueryFrom(parts, i + 1, sep)

\* parts.join(' AND ') / parts.join(' OR ')
JoinQuery(parts, sep) == JoinQueryFrom(parts, 1, sep)

----------------------------------------------------------------------------
(* Predicate compiler: WhereQueryBuilder *)

paramsPrefix == <<"where", US, "param", US>>

\* String.prototype.toLowerCase on the sample values of the model
toLowerCase(v) == [i \in 1..Len(v) |-> CASE v[i] = "JOHN" -> "john" [] OTHER -> v[i]]

\* a conversion that knows the generic cast only
convertToTextMutant(columnName, db) == <<"CAST(">> \o columnName \o <<" AS VARCHAR)">>

\* WhereQueryBuilder.convertToText
convertToText(columnName, db) ==
    CASE db \in {"postgres", "postgresql"} -> columnName \o <<"::text">>
      [] db \in {"sqlite", "better-sqlite3"} -> <<"CAST(">> \o columnName \o <<" AS TEXT)">>
      [] db \in {"mysql", "mariadb"} -> <<"CAST(">> \o columnName \o <<" AS CHAR)">>
      [] db = "mssql" -> <<"CAST(">> \o columnName \o <<" AS NVARCHAR(MAX))">>
      [] db = "oracle" -> <<"TO", US, "CHAR(">> \o columnName \o <<")">>
      [] OTHER -> <<"CAST(">> \o columnName \o <<" AS VARCHAR)">>

\* WhereQueryBuilder.generateLikeQuery
generateLikeQuery(columnName, paramName, isNegated, isCaseInsensitive, db) ==
    LET negation == IF isNegated THEN "NOT LIKE" ELSE "LIKE"
        textColumn == convertToText(columnName, db)
    IN  IF isCaseInsensitive
        THEN <<ColTok(<<"LOWER(">> \o textColumn \o <<")">>), OpTok(negation), LowerParamTok(paramName)>>
        ELSE <<ColTok(textColumn), OpTok(negation), ParamTok(paramName)>>

Leaf(query, params) == [query |-> query, params |-> params, err |-> ""]
Throw(msg) == [query |-> <<>>, params |-> EmptyMap, err |-> msg]

\* `${columnName} <op> :${paramName}` with params {[paramName]: value}
Compare(columnName, o, paramName, value) ==
    Leaf(<<ColTok(columnName), OpTok(o), ParamTok(paramName)>>, paramName :> value)

\* `${value}%` and `%${value}` of a scalar
Affix(value, before, after) ==
    Scalar(before \o (IF value.items = <<>> THEN <<"undefined">> ELSE value.items[1]) \o after)

\* const [start, end] = value
Destructure(value, i) ==
    IF value.arr /\ i <= Len(value.items) THEN Scalar(value.items[i]) ELSE NoValue

\* the branch of the IN case for a non-empty or non-array value
InNonEmptyMutant(columnName, value, paramName) ==
    Leaf(<<ColTok(columnName), OpTok("IN"), LP, SpreadTok(paramName), RP>>, paramName :> value)

\* case WhereOperatorEnum.IN
InCase(columnName, value, paramName) ==
    IF value.arr /\ Len(value.items) = 0
    THEN Leaf(<<NumTok("1"), OpTok("="), NumTok("0")>>, EmptyMap)
    ELSE Leaf(<<ColTok(columnName), OpTok("IN"), LP, SpreadTok(paramName), RP>>, paramName :> value)

\* a compiler that emits nothing, whatever the operator
SkipOperatorMutant(columnName, value, operator, paramName, db) == Leaf(<<>>, EmptyMap)

\* WhereQueryBuilder.parseWhereObjectToQueryAndParams, paramName being
\* `${paramsPrefix}${paramIndex++}`
parseWhereObjectToQueryAndParams(columnName, value, operator, paramName, db) ==
    CASE operator = "$eq" -> Compare(columnName, "=", paramName, value)
      [] operator = "$ne" -> Compare(columnName, "!=", paramName, value)
      [] operator = "$gt" -> Compare(columnName, ">", paramName, value)
      [] operator = "$gte" -> Compare(columnName, ">=", paramName, value)
      [] operator = "$lt" -> Compare(columnName, "<", paramName, value)
      [] operator = "$lte" -> Compare(columnName, "<=", paramName, value)
      [] operator = "$like" ->
            Leaf(generateLikeQuery(columnName, paramName, FALSE, FALSE, db), paramName :> value)
      [] operator = "$notLike" ->
            Leaf(generateLikeQuery(columnName, paramName, TRUE, FALSE, db), paramName :> value)
      [] operator = "$iLike" ->
            Leaf(generateLikeQuery(columnName, paramName, FALSE, TRUE, db), paramName :> value)
      [] operator = "$notIlike" ->
            Leaf(generateLikeQuery(columnName, paramName, TRUE, TRUE, db), paramName :> value)
      [] operator = "STARTS_WITH" ->
            Leaf(generateLikeQuery(columnName, paramName, FALSE, FALSE, db),
                 paramName :> Affix(value, <<>>, <<"%">>))
      [] operator = "ENDS_WITH" ->
            Leaf(generateLikeQuery(columnName, paramName, FALSE, FALSE, db),
                 paramName :> Affix(value, <<"%">>, <<>>))
      [] operator = "ISTARTS_WITH" ->
            Leaf(generateLikeQuery(columnName, paramName, FALSE, TRUE, db),
                 paramName :> Affix(value, <<>>, <<"%">>))
      [] operator = "IENDS_WITH" ->
            Leaf(generateLikeQuery(columnName, paramName, FALSE, TRUE, db),
                 paramName :> Affix(value, <<"%">>, <<>>))
      [] operator = "IN_L" ->
            IF ~value.arr THEN Throw("BadRequest: Operator IN_L requires an array value")
            ELSE IF Len(value.items) = 0
            THEN Leaf(<<NumTok("1"), OpTok("="), NumTok("0")>>, EmptyMap)
            ELSE Leaf(<<ColTok(<<"LOWER(">> \o convertToText(columnName, db) \o <<")">>),
                        OpTok("IN"), LP, SpreadTok(paramName), RP>>,
                      paramName :> ArrayOf([i \in 1..Len(value.items) |-> toLowerCase(value.items[i])]))
      [] operator = "NOT_IN_L" ->
            IF ~value.arr THEN Throw("BadRequest: Operator NOT_IN_L requires an array value")
            ELSE Leaf(<<ColTok(<<"LOWER(">> \o convertToText(columnName, db) \o <<")">>),
                        OpTok("NOT IN"), LP, SpreadTok(paramName), RP>>,
                      paramName :> ArrayOf([i \in 1..Len(value.items) |-> toLowerCase(value.items[i])]))
      [] operator = "$in" -> InCase(columnName, value, paramName)
      [] operator = "$notIn" ->
            Leaf(<<ColTok(columnName), OpTok("NOT IN"), LP, SpreadTok(paramName), RP>>,
                 paramName :> value)
      [] operator \in {"CONT_ARR", "INTERSECTS_ARR"} ->
            IF ~value.arr
            THEN Throw("BadRequest: Operator " \o operator \o " requires an array value")
            ELSE IF Len(value.items) = 0
            THEN Leaf(<<NumTok("1"), OpTok("="), NumTok("0")>>, EmptyMap)
            ELSE IF db \notin {"postgres", "postgresql"}
            THEN Throw("BadRequest: Operator " \o operator \o " is only supported for PostgreSQL")
            ELSE Leaf(<<ColTok(columnName),
                        OpTok(IF operator = "CONT_ARR" THEN "@>" ELSE "&&"),
                        ArrayTok(paramName)>>,
                      paramName :> value)
      [] operator = "$isNull" -> Leaf(<<ColTok(columnName), OpTok("IS NULL")>>, EmptyMap)
      [] operator = "$isNotNull" -> Leaf(<<ColTok(columnName), OpTok("IS NOT NULL")>>, EmptyMap)
      [] operator \in {"$between", "$notBetween"} ->
            Leaf(<<ColTok(columnName),
                   OpTok(IF operator = "$between" THEN "BETWEEN" ELSE "NOT BETWEEN"),
                   ParamTok(paramName \o <<US, "0">>), KwAnd,
                   ParamTok(paramName \o <<US, "1">>)>>,
                 (paramName \o <<US, "0">> :> Destructure(value, 1))
                    @@ (paramName \o <<US, "1">> :> Destructure(value, 2)))
      [] operator = "$isTrue" -> Leaf(<<ColTok(columnName), OpTok("IS TRUE")>>, EmptyMap)
      [] operator = "$isFalse" -> Leaf(<<ColTok(columnName), OpTok("IS FALSE")>>, EmptyMap)
      [] OTHER -> Throw("BadRequest: Unsupported operator: " \o operator)

\* the state threaded through one compilation: the fragments and parameters
\* collected so far, the parameter counter, the resolver's memo map, and the
\* message of the exception thrown ("" while none is)
Acc(parts, params, idx, hash, err) ==
    [parts |-> parts, params |-> params, idx |-> idx, hash |-> hash, err |-> err]

\* a leaf step that names every parameter by the same counter value
LeafStepMutant(r, hash, acc) ==
    Acc(IF r.err = "" /\ r.query # <<>> THEN Append(acc.parts, r.query) ELSE acc.parts,
        IF r.err = "" /\ r.query # <<>> THEN Assign(acc.params, r.params) ELSE acc.params,
        acc.idx, hash, r.err)

\* if (query) { queryParts.push(query); Object.assign(params, subParams) }
\* with r what parseWhereObjectToQueryAndParams returned (or threw)
LeafStep(r, hash, acc) ==
    Acc(IF r.err = "" /\ r.query # <<>> THEN Append(acc.parts, r.query) ELSE acc.parts,
        IF r.err = "" /\ r.query # <<>> THEN Assign(acc.params, r.params) ELSE acc.params,
        acc.idx + 1, hash, r.err)

ResolvedLeaf(column, value, operator, acc, db) ==
    LeafStep(parseWhereObjectToQueryAndParams(column.col, value, operator,
                                              paramsPrefix \o <<ToString(acc.idx)>>, db),
             column.hash, acc)

\* one comparison: resolve the column, allocate the parameter name, compile,
\* and push the fragment when it is not empty
CompileLeaf(key, value, operator, acc, db) ==
    ResolvedLeaf(getFieldWithAlias(key, db, acc.hash), value, operator, acc, db)

\* the fragment of a logical group without the parentheses around it
GroupQueryUnwrapped(subParts, key) ==
    JoinQuery(subParts, IF key = <<"$and">> THEN KwAnd ELSE KwOr)

\* subParts.length > 1 ? `(${subParts.join(operator)})` : subParts.join(operator)
GroupQuery(subParts, key) ==
    LET operator == IF key = <<"$and">> THEN KwAnd ELSE KwOr
    IN  IF Len(subParts) > 1 THEN Paren(JoinQuery(subParts, operator))
        ELSE JoinQuery(subParts, operator)

RECURSIVE buildWhereQueryAndParams(_, _, _, _)

\* a group loop that pushes the element's fragment without parentheses
SubStepMutant(r, acc) ==
    Acc(IF r.err = "" /\ r.query # <<>> THEN Append(acc.parts, r.query) ELSE acc.parts,
        IF r.err = "" /\ r.query # <<>> THEN Assign(acc.params, r.params) ELSE acc.params,
        r.idx, r.hash, r.err)

\* if (query) { subParts.push(`(${query})`); Object.assign(params, subParams) }
\* with r what the recursive call returned; acc.parts collects subParts
SubStep(r, acc) ==
    Acc(IF r.err = "" /\ r.query # <<>> THEN Append(acc.parts, Paren(r.query)) ELSE acc.parts,
        IF r.err = "" /\ r.query # <<>> THEN Assign(acc.params, r.params) ELSE acc.params,
        r.idx, r.hash, r.err)

\* for (const sub of value)
RECURSIVE BuildSubs(_, _, _, _)
BuildSubs(items, j, acc, db) ==
    IF j > Len(items) \/ acc.err # "" THEN acc
    ELSE BuildSubs(items, j + 1,
                   SubStep(buildWhereQueryAndParams(items[j], acc.idx, acc.hash, db), acc), db)

\* for (const op in value)
RECURSIVE BuildOps(_, _, _, _, _)
BuildOps(key, ops, k, acc, db) ==
    IF k > Len(ops) \/ acc.err # "" THEN acc
    ELSE BuildOps(key, ops, k + 1, CompileLeaf(key, ops[k].val, ops[k].op, acc, db), db)

\* if (subParts.length) queryParts.push(groupedQuery), with subs what the
\* loop over the group's elements left
GroupStep(key, subs, acc) ==
    Acc(IF subs.err = "" /\ subs.parts # <<>>
        THEN Append(acc.parts, GroupQuery(subs.parts, key)) ELSE acc.parts,
        subs.params, subs.idx, subs.hash, subs.err)

\* a loop body that compiles the filter object of a non-array group as its
\* only element
KeyStepMutant(e, acc, db) ==
    IF e.key \in {<<"$and">>, <<"$or">>}
    THEN IF e.items = <<>>
         THEN acc
         ELSE GroupStep(e.key,
                        BuildSubs(e.items, 1, Acc(<<>>, acc.params, acc.idx, acc.hash, ""), db),
                        acc)
    ELSE IF e.vk = "object"
    THEN BuildOps(e.key, e.ops, 1, acc, db)
    ELSE CompileLeaf(e.key, e.val, "$eq", acc, db)

\* the body of for (const key in condition), for one key
KeyStep(e, acc, db) ==
    IF e.key \in {<<"$and">>, <<"$or">>}
    THEN IF e.vk # "array" \/ e.items = <<>>
         THEN acc
         ELSE GroupStep(e.key,
                        BuildSubs(e.items, 1, Acc(<<>>, acc.params, acc.idx, acc.hash, ""), db),
                        acc)
    ELSE IF e.vk = "object"
    THEN BuildOps(e.key, e.ops, 1, acc, db)
    ELSE CompileLeaf(e.key, e.val, "$eq", acc, db)

\* for (const key in condition)
RECURSIVE BuildKeys(_, _, _, _)
BuildKeys(entries, i, acc, db) ==
    IF i > Len(entries) \/ acc.err # "" THEN acc
    ELSE BuildKeys(entries, i + 1, KeyStep(entries[i], acc, db), db)

\* { query: queryParts.length ? queryParts.join(' AND ') : '', params }, or
\* the exception that ended the loop
CompileResult(acc) ==
    [query |-> IF acc.err = "" /\ acc.parts # <<>> THEN JoinQuery(acc.parts, KwAnd) ELSE <<>>,
     params |-> IF acc.err = "" THEN acc.params ELSE EmptyMap,
     idx |-> acc.idx, hash |-> acc.hash, err |-> acc.err]

\* for (const key in condition) of an array: its keys are the indexes "0",
\* "1", ..., its values the elements, whose own keys are then read as operators
IndexEntries(items) ==
    [i \in 1..Len(items) |->
        [key |-> <<ToString(i - 1)>>, vk |-> "object", items |-> <<>>,
         ops |-> [j \in 1..Len(items[i].entries) |-> OpV(items[i].entries[j].key[1], NoValue)],
         val |-> NoValue]]

KeysIn(condition) ==
    IF condition.kind = "array" THEN IndexEntries(condition.items) ELSE condition.entries

\* WhereQueryBuilder.buildWhereQueryAndParams, called with the parameter
\* counter at idx: [query, params, idx, hash, err]
buildWhereQueryAndParams(condition, idx, hash, db) ==
    IF condition.kind = "undefined" \/ (condition.entries = <<>> /\ condition.items = <<>>)
    THEN [query |-> <<>>, params |-> EmptyMap, idx |-> idx, hash |-> hash, err |-> ""]
    ELSE CompileResult(BuildKeys(KeysIn(condition), 1, Acc(<<>>, EmptyMap, idx, hash, ""), db))

\* Array.isArray(whereObject) ? { $and: whereObject } : whereObject
WrapArray(whereObject) ==
    IF whereObject.kind = "array" THEN Obj(<<Group("$and", whereObject.items)>>)
    ELSE whereObject

BuildResult(clauses, r) ==
    [clauses |-> clauses, query |-> r.query, params |-> r.params, idx |-> r.idx,
     hash |-> r.hash, err |-> r.err]

\* builder.andWhere(query, params) whatever the query
ApplyWhereMutant(r, clauses) ==
    BuildResult(IF r.err = "" THEN Append(clauses, [query |-> r.query, params |-> r.params])
                ELSE clauses, r)

\* builder.andWhere(query, params) even when the compilation threw
ApplyWhereFinallyMutant(r, clauses) ==
    BuildResult(Append(clauses, [query |-> r.query, params |-> r.params]), r)

\* query ? this.builder.andWhere(query, params) : this.builder
ApplyWhere(r, clauses) ==
    BuildResult(IF r.err = "" /\ r.query # <<>>
                THEN Append(clauses, [query |-> r.query, params |-> r.params])
                ELSE clauses, r)

\* a build without the three early returns and the final `query ?` test
WhereBuildMutant(whereObject, idx, hash, db, clauses) ==
    ApplyWhereMutant(buildWhereQueryAndParams(WrapArray(whereObject), idx, hash, db), clauses)

\* a build that starts its parameter counter at 0 again
WhereBuildResetMutant(whereObject, idx, hash, db, clauses) ==
    ApplyWhere(buildWhereQueryAndParams(WrapArray(whereObject), 0, hash, db), clauses)

\* WhereQueryBuilder.build: [clauses, query, params, idx, hash, err], clauses
\* being the builder's andWhere calls after the call
WhereBuild(whereObject, idx, hash, db, clauses) ==
    IF \/ whereObject.kind = "undefined"
       \/ whereObject.kind = "array" /\ whereObject.items = <<>>
       \/ whereObject.kind = "object" /\ whereObject.entries = <<>>
    THEN [clauses |-> clauses, query |-> <<>>, params |-> EmptyMap, idx |-> idx,
          hash |-> hash, err |-> ""]
    ELSE ApplyWhere(buildWhereQueryAndParams(WrapArray(whereObject), idx, hash, db), clauses)

----------------------------------------------------------------------------
(* Join planner: JoinQueryBuilder                                          *)
(*   relation value : [isBool, bool, joinType, select, where]  `true`,     *)
(*                    `false`, or a RelationObjectValue (joinType "" and    *)
(*                    select <<>> when absent, where Undefined when absent) *)
(*   relation spec  : [kind, name, items, entries]  a string, an array of   *)
(*                    specs, or an object (entries [key, value] in key      *)
(*                    order)                                                *)

Range(seq) == {seq[i] : i \in 1..Len(seq)}

RelBool(b) == [isBool |-> TRUE, bool |-> b, joinType |-> "", select |-> <<>>, where |-> Undefined]
RelCfg(joinType, select, where) ==
    [isBool |-> FALSE, bool |-> FALSE, joinType |-> joinType, select |-> select, where |-> where]

RelString(name) == [kind |-> "string", name |-> name, items |-> <<>>, entries |-> <<>>]
RelArray(items) == [kind |-> "array", name |-> <<>>, items |-> items, entries |-> <<>>]
RelObject(entries) == [kind |-> "object", name |-> <<>>, items |-> <<>>, entries |-> entries]
RelEntry(key, value) == [key |-> key, value |-> value]

Keys(obj) == [i \in 1..Len(obj) |-> obj[i].key]

\* result[key] = value, keeping the position of a key that is already there
SetKey(obj, e) ==
    IF e.key \in Range(Keys(obj))
    THEN [i \in 1..Len(obj) |-> IF obj[i].key = e.key THEN e ELSE obj[i]]
    ELSE Append(obj, e)

RECURSIVE ObjectAssign(_, _, _)
ObjectAssign(obj, src, i) ==
    IF i > Len(src) THEN obj ELSE ObjectAssign(SetKey(obj, src[i]), src, i + 1)

RECURSIVE parseJoinConfig(_)
RECURSIVE ParseItems(_, _, _)
ParseItems(items, i, result) ==
    IF i > Len(items) THEN result
    ELSE ParseItems(items, i + 1, ObjectAssign(result, parseJoinConfig(items[i]), 1))

\* JoinQueryBuilder.parseJoinConfig: the RelationObject, entries in key order
parseJoinConfig(joinConfig) ==
    CASE joinConfig.kind = "string" -> <<RelEntry(joinConfig.name, RelBool(TRUE))>>
      [] joinConfig.kind = "array" -> ParseItems(joinConfig.items, 1, <<>>)
      [] OTHER -> joinConfig.entries

\* Set.prototype.add on a set kept in insertion order
SetAdd(set, x) == IF x \in Range(set) THEN set ELSE Append(set, x)

RECURSIVE SetAddAll(_, _, _)
SetAddAll(set, xs, i) == IF i > Len(xs) THEN set ELSE SetAddAll(SetAdd(set, xs[i]), xs, i + 1)

\* the listed path alone, without its parent paths
PrefixesMutant(segments, i, all) == SetAdd(all, JoinStr(segments, DOT))

\* for (let i = 1; i <= segments.length; i++) allRelations.add(segments.slice(0, i).join('.'))
RECURSIVE Prefixes(_, _, _)
Prefixes(segments, i, all) ==
    IF i > Len(segments) THEN all
    ELSE Prefixes(segments, i + 1, SetAdd(all, JoinStr(Slice(segments, i), DOT)))

RECURSIVE CollectFrom(_, _, _)
CollectFrom(joinConfig, k, all) ==
    IF k > Len(joinConfig) THEN all
    ELSE CollectFrom(joinConfig, k + 1, Prefixes(Split(joinConfig[k].key), 1, all))

\* JoinQueryBuilder.collectAllNeededRelations: the Set, in insertion order
collectAllNeededRelations(joinConfig) == CollectFrom(joinConfig, 1, <<>>)

Depth(path) == Len(Split(path))

MaxOf(S) == IF S = {} THEN 0 ELSE CHOOSE m \in S : \A x \in S : x <= m

RECURSIVE SortLevels(_, _, _, _)
SortLevels(paths, d, last, step) ==
    LET IsLevel(x) == Depth(x) = d
    IN  SelectSeq(paths, IsLevel)
            \o (IF d = last THEN <<>> ELSE SortLevels(paths, d + step, last, step))

\* the sort with the comparator reversed: depthB - depthA
SortByDepthMutant(paths) ==
    IF paths = <<>> THEN <<>>
    ELSE SortLevels(paths, MaxOf({Depth(paths[i]) : i \in 1..Len(paths)}), 1, -1)

\* Array.from(allNeededRelations).sort((a, b) => depthA - depthB): the sort
\* is stable, paths of one depth keep their insertion order
SortByDepth(paths) ==
    IF paths = <<>> THEN <<>>
    ELSE SortLevels(paths, 1, MaxOf({Depth(paths[i]) : i \in 1..Len(paths)}), 1)

\* isArrayFull(val): val is an array with at least one element
isArrayFull(val) == Len(val) > 0

\* one call builder.leftJoin(path, alias) / builder.innerJoin(path, alias);
\* name is the relation path the call was made for (bookkeeping only)
JoinCall(relationType, path, alias, name) ==
    [type |-> relationType, path |-> path, alias |-> alias, name |-> name]

\* the planner's view of the builder and the helper: the join calls so far,
\* the registered columns, the resolver's memo map, and the message of the
\* error thrown ("" while none is)
Plan(js, fields, hash, err) == [joins |-> js, fields |-> fields, hash |-> hash, err |-> err]

\* [...primaryColumns, ...columns].map((col) => `${alias}.${col}`)
Qualified(alias, columns) == [i \in 1..Len(columns) |-> alias \o <<DOT>> \o columns[i]]

\* options.select.filter((column) => allowedColumns.some((allowed) => allowed === column))
FilterAllowed(select, allowedColumns) ==
    LET Allowed(column) == column \in Range(allowedColumns)
    IN  SelectSeq(select, Allowed)

RelationType(options) == IF options.joinType = "inner" THEN "innerJoin" ELSE "leftJoin"

\* the columns of a root relation: the allowed ones among options.select, or
\* all allowed columns
RootColumns(options, rel) ==
    IF isArrayFull(options.select) THEN FilterAllowed(options.select, rel.allowedColumns)
    ELSE rel.allowedColumns

\* segments.length === 1, allowedRelation being getRelationMetadata(name)
SetRootJoin(name, options, allowedRelation, st) ==
    IF ~allowedRelation.found
    THEN Plan(st.joins, st.fields, st.hash, "Error: Relation '" \o Text(name, 1) \o "' not found")
    ELSE Plan(Append(st.joins,
                     JoinCall(RelationType(options), allowedRelation.rel.path, name, name)),
              SetAddAll(st.fields,
                        Qualified(name, allowedRelation.rel.primaryColumns
                                            \o RootColumns(options, allowedRelation.rel)), 1),
              allowedRelation.hash, "")

\* the columns of a nested relation: the allowed ones among options.select,
\* or the primary columns and all allowed columns
NestedColumns(options, rel) ==
    IF isArrayFull(options.select) THEN FilterAllowed(options.select, rel.allowedColumns)
    ELSE rel.primaryColumns \o rel.allowedColumns

\* the nested branch after its join call, allowedRelation being
\* getRelationMetadata(name)
RegisterNested(currentAlias, options, allowedRelation, joined, st) ==
    IF ~allowedRelation.found
    THEN Plan(joined, st.fields, st.hash, "")
    ELSE Plan(joined,
              SetAddAll(st.fields,
                        Qualified(currentAlias, NestedColumns(options, allowedRelation.rel)), 1),
              allowedRelation.hash, "")

\* segments.length > 1: parentAlias is segments.slice(0, -1).join('_'),
\* currentAlias is name.replace(/\./g, '_')
SetNestedJoin(name, segments, options, st) ==
    RegisterNested(ReplaceDots(name), options, getRelationMetadata(name, st.hash),
                   Append(st.joins,
                          JoinCall(RelationType(options),
                                   JoinStr(Slice(segments, Len(segments) - 1), US)
                                        \o <<DOT>> \o segments[Len(segments)],
                                   ReplaceDots(name), name)),
                   st)

SetJoinSegments(name, segments, options, st) ==
    IF Len(segments) = 1
    THEN SetRootJoin(name, options, getRelationMetadata(name, st.hash), st)
    ELSE SetNestedJoin(name, segments, options, st)

\* JoinQueryBuilder.setJoin
setJoin(name, options, st) == SetJoinSegments(name, Split(name), options, st)

DefaultOptions == [joinType |-> "left", select |-> <<>>, where |-> Undefined]

ConfigOptions(config) ==
    IF config.isBool THEN DefaultOptions
    ELSE [joinType |-> IF config.joinType = "" THEN "left" ELSE config.joinType,
          select |-> config.select, where |-> config.where]

\* the options of a path as if the caller had not listed it
OptionsForMutant(joinConfig, relationPath) == DefaultOptions

\* joinConfig[relationPath] || { joinType: 'left' }, then
\* { joinType: 'left' } for a boolean and { joinType: 'left', ...config } otherwise
OptionsFor(joinConfig, relationPath) ==
    IF relationPath \notin Range(Keys(joinConfig)) THEN DefaultOptions
    ELSE ConfigOptions((CHOOSE e \in Range(joinConfig) : e.key = relationPath).value)

\* for (const relationPath of sortedRelations): a throw ends the loop
RECURSIVE ProcessRelations(_, _, _, _)
ProcessRelations(sortedRelations, i, joinConfig, st) ==
    IF i > Len(sortedRelations) \/ st.err # "" THEN st
    ELSE ProcessRelations(sortedRelations, i + 1, joinConfig,
                          setJoin(sortedRelations[i],
                                  OptionsFor(joinConfig, sortedRelations[i]), st))

PlanConfig(joinConfig, st) ==
    ProcessRelations(SortByDepth(collectAllNeededRelations(joinConfig)), 1, joinConfig, st)

\* JoinQueryBuilder.build
JoinBuild(config, st) == PlanConfig(parseJoinConfig(config), st)


----------------------------------------------------------------------------
(* Orchestrator: FindQueryBuilder                                          *)
(*   options : [given, take, skip, withDeleted, onlyDeleted, select,       *)
(*             relations, where, order]  given is FALSE for build();        *)
(*             take / skip are digit strings (<<>>: undefined); relations   *)
(*             has kind "none" when absent; where is Undefined when absent; *)
(*             order is the sequence of its [key, dir] in key order         *)
(*   b       : the query builder and the helper while build runs:           *)
(*             [findOptions, wheres, joins, fields, hash, idx, orderBys,    *)
(*              selects, log, err], log being the builder and helper calls  *)
(*             made so far                                                  *)

NoRelations == [kind |-> "none", name |-> <<>>, items |-> <<>>, entries |-> <<>>]

Options(take, skip, withDeleted, onlyDeleted, select, relations, where, order) ==
    [given |-> TRUE, take |-> take, skip |-> skip, withDeleted |-> withDeleted,
     onlyDeleted |-> onlyDeleted, select |-> select, relations |-> relations,
     where |-> where, order |-> order]

NoOptions ==
    [given |-> FALSE, take |-> <<>>, skip |-> <<>>, withDeleted |-> FALSE,
     onlyDeleted |-> FALSE, select |-> <<>>, relations |-> NoRelations,
     where |-> Undefined, order |-> <<>>]

\* Number(x) of a digit string
RECURSIVE Number(_, _)
Number(digits, n) ==
    IF digits = <<>> THEN n ELSE Number(Tail(digits), 10 * n + Head(digits))

NotSet == [set |-> FALSE, n |-> 0]
NumberOf(x) == IF x = <<>> THEN NotSet ELSE [set |-> TRUE, n |-> Number(x, 0)]

NoFindOptions == [take |-> NotSet, skip |-> NotSet, withDeleted |-> FALSE]

\* QueryBuilderHelper.entityColumns
entityColumns(del) == ColumnsOf(RootEntity) \o (IF del = <<>> THEN <<>> ELSE <<del>>)

\* QueryBuilderHelper.cleanFieldName
cleanFieldName(fieldName, db) ==
    LET Kept(chunk) == chunk # getIdentifierQuote(db)
    IN  SelectSeq(fieldName, Kept)

\* `${this.builder.alias}.${deleteDateColumn.propertyName} IS NOT NULL`
OnlyDeletedClause(del) ==
    [query |-> <<ColTok(rootAlias \o <<DOT>> \o del), OpTok("IS NOT NULL")>>, params |-> EmptyMap]

\* the flags with withDeleted taken from options.withDeleted alone
FlagsStepMutant(o, del, b) ==
    [b EXCEPT
        !.wheres = IF o.onlyDeleted /\ del # <<>> THEN Append(@, OnlyDeletedClause(del)) ELSE @,
        !.findOptions = [take |-> NumberOf(o.take), skip |-> NumberOf(o.skip),
                         withDeleted |-> o.withDeleted],
        !.log = @ \o (IF o.onlyDeleted /\ del # <<>> THEN <<"andWhere">> ELSE <<>>)
                  \o <<"setFindOptions">>]

\* the pagination and soft-delete part of build, up to setFindOptions
FlagsStep(o, del, b) ==
    [b EXCEPT
        !.wheres = IF o.onlyDeleted /\ del # <<>> THEN Append(@, OnlyDeletedClause(del)) ELSE @,
        !.findOptions = [take |-> NumberOf(o.take), skip |-> NumberOf(o.skip),
                         withDeleted |-> o.withDeleted \/ (o.onlyDeleted /\ del # <<>>)],
        !.log = @ \o (IF o.onlyDeleted /\ del # <<>> THEN <<"andWhere">> ELSE <<>>)
                  \o <<"setFindOptions">>]

\* this.helper.selectedFields.add(this.helper.getFieldWithAlias(field))
AddField(column, b) ==
    [b EXCEPT !.fields = SetAdd(@, column.col), !.hash = column.hash]

RECURSIVE AddFields(_, _, _, _)
AddFields(select, i, db, b) ==
    IF i > Len(select) THEN b
    ELSE AddFields(select, i + 1, db, AddField(getFieldWithAlias(select[i], db, b.hash), b))

Logged(call, b) == [b EXCEPT !.log = Append(@, call)]

\* a buildSelect that starts from an empty set of registered columns
buildSelectMutant(select, del, db, b) ==
    Logged("buildSelect",
           AddFields(IF Len(select) = 0 THEN entityColumns(del) ELSE select, 1, db,
                     [b EXCEPT !.fields = <<>>]))

\* FindQueryBuilder.buildSelect
buildSelect(select, del, db, b) ==
    Logged("buildSelect",
           AddFields(IF Len(select) = 0 THEN entityColumns(del) ELSE select, 1, db, b))

\* the builder and the helper after joinQueryBuilder.build left them as st
AfterJoin(b, st) ==
    [b EXCEPT !.joins = st.joins, !.fields = st.fields, !.hash = st.hash, !.err = st.err,
              !.log = @ \o [i \in 1..(Len(st.joins) - Len(b.joins)) |->
                                st.joins[Len(b.joins) + i].type]]

\* if (options.relations) this.joinQueryBuilder.build(options.relations)
JoinStep(relations, b) ==
    IF b.err # "" \/ relations.kind = "none" THEN b
    ELSE AfterJoin(b, JoinBuild(relations, Plan(b.joins, b.fields, b.hash, "")))

\* the builder and the helper after whereQueryBuilder.build returned r
AfterWhere(b, r) ==
    [b EXCEPT !.wheres = r.clauses, !.idx = r.idx, !.hash = r.hash, !.err = r.err,
              !.log = IF Len(r.clauses) > Len(b.wheres) THEN Append(@, "andWhere") ELSE @]

\* if (options?.where) this.whereQueryBuilder.build(options.where)
WhereStep(where, db, b) ==
    IF b.err # "" \/ where.kind = "undefined" THEN b
    ELSE AfterWhere(b, WhereBuild(where, b.idx, b.hash, db, b.wheres))

\* an order step that also joins the relation of a relation-qualified field
AddOrderMutant(column, dir, db, b) ==
    [b EXCEPT !.orderBys = Append(@, [field |-> cleanFieldName(column.col, db), dir |-> dir]),
              !.joins = IF DOT \in Range(cleanFieldName(column.col, db))
                        THEN Append(@, JoinCall("leftJoin", cleanFieldName(column.col, db),
                                                cleanFieldName(column.col, db),
                                                cleanFieldName(column.col, db)))
                        ELSE @,
              !.hash = column.hash,
              !.log = Append(@, "addOrderBy")]

\* this.builder.addOrderBy(cleanFieldName(getFieldWithAlias(key)), order[key])
AddOrder(column, dir, db, b) ==
    [b EXCEPT !.orderBys = Append(@, [field |-> cleanFieldName(column.col, db), dir |-> dir]),
              !.hash = column.hash,
              !.log = Append(@, "addOrderBy")]

\* FindQueryBuilder.buildOrder
RECURSIVE buildOrder(_, _, _, _)
buildOrder(order, i, db, b) ==
    IF i > Len(order) THEN b
    ELSE buildOrder(order, i + 1, db,
                    AddOrder(getFieldWithAlias(order[i].key, db, b.hash), order[i].dir, db, b))

\* if (options.order) this.buildOrder(options.order)
OrderStep(order, db, b) == IF b.err # "" THEN b ELSE buildOrder(order, 1, db, b)

\* this.builder.select(Array.from(selectedFields).map(cleanFieldName))
FinalSelect(db, b) ==
    IF b.err # "" THEN b
    ELSE [b EXCEPT !.selects = [i \in 1..Len(b.fields) |-> cleanFieldName(b.fields[i], db)],
                   !.log = Append(@, "select")]

\* the body of if (options) with the where step before the join step
WithOptionsMutant(o, del, db, b) ==
    OrderStep(o.order, db,
        JoinStep(o.relations,
            WhereStep(o.where, db,
                buildSelect(o.select, del, db, FlagsStep(o, del, b)))))

\* the body of if (options)
WithOptions(o, del, db, b) ==
    OrderStep(o.order, db,
        WhereStep(o.where, db,
            JoinStep(o.relations,
                buildSelect(o.select, del, db, FlagsStep(o, del, b)))))

\* FindQueryBuilder.build
FindBuild(o, del, db, b) ==
    FinalSelect(db, IF o.given THEN WithOptions(o, del, db, b) ELSE b)

----------------------------------------------------------------------------
(* RequestQueryParser and CrudService *)

\* the value of a query parameter; a string is its sequence of characters
Absent == [t |-> "undefined", s |-> <<>>, b |-> FALSE, n |-> 0]
Str(s) == [t |-> "string", s |-> s, b |-> FALSE, n |-> 0]
Bool(b) == [t |-> "boolean", s |-> <<>>, b |-> b, n |-> 0]
Num(n) == [t |-> "number", s |-> <<>>, b |-> FALSE, n |-> n]

\* the query given to CrudService; where, relations, order and select are
\* given as objects and arrays (bracket notation), Undefined / NoRelations /
\* <<>> when absent
Query(limit, take, offset, skip, withDeleted, onlyDeleted, where, relations, order, select) ==
    [limit |-> limit, take |-> take, offset |-> offset, skip |-> skip,
     withDeleted |-> withDeleted, onlyDeleted |-> onlyDeleted, where |-> where,
     relations |-> relations, order |-> order, select |-> select]

\* String.prototype.toLowerCase, character by character
LowerChar(c) ==
    CASE c = "T" -> "t" [] c = "R" -> "r" [] c = "U" -> "u" [] c = "E" -> "e"
      [] c = "F" -> "f" [] c = "A" -> "a" [] c = "L" -> "l" [] c = "S" -> "s"
      [] OTHER -> c

LowerCase(s) == [i \in 1..Len(s) |-> LowerChar(s[i])]

DigitValue(c) ==
    CASE c = "0" -> 0 [] c = "1" -> 1 [] c = "2" -> 2 [] c = "3" -> 3 [] c = "4" -> 4
      [] c = "5" -> 5 [] c = "6" -> 6 [] c = "7" -> 7 [] c = "8" -> 8 [] c = "9" -> 9
      [] OTHER -> -1

\* parseInt(value, 10): the number of the leading digits, NaN without one
RECURSIVE ParseInt(_, _, _, _)
ParseInt(s, i, seen, n) ==
    IF i > Len(s) \/ DigitValue(s[i]) < 0
    THEN [nan |-> ~seen, n |-> n]
    ELSE ParseInt(s, i + 1, TRUE, 10 * n + DigitValue(s[i]))

\* RequestQueryParser.parseInteger
parseInteger(value) ==
    IF value.t = "number" THEN value.n
    ELSE IF value.t = "string"
    THEN (IF ParseInt(value.s, 1, FALSE, 0).nan THEN 0 ELSE ParseInt(value.s, 1, FALSE, 0).n)
    ELSE 0

\* RequestQueryParser.parseBoolean
parseBoolean(value) ==
    IF value.t = "boolean" THEN value.b
    ELSE IF value.t = "string"
    THEN LowerCase(value.s) = <<"t", "r", "u", "e">> \/ value.s = <<"1">>
    ELSE IF value.t = "number" THEN value.n = 1
    ELSE FALSE

\* the string case of convertObjectValues, on the values of a filter: the
\* spellings of null, true and false become null, true and false; a string
\* of digits becomes the number it spells
convertString(v) ==
    IF v \in {<<"null">>, <<"undefined">>, <<"NaN">>, <<"NULL">>, <<"UNDEFINED">>, <<"NAN">>}
    THEN <<"null">>
    ELSE IF v \in {<<"true">>, <<"TRUE">>} THEN <<"true">>
    ELSE IF v \in {<<"false">>, <<"FALSE">>} THEN <<"false">>
    ELSE v

convertValue(v) == [arr |-> v.arr, items |-> [i \in 1..Len(v.items) |-> convertString(v.items[i])]]

\* RequestQueryParser.convertObjectValues on a filter
RECURSIVE convertObjectValues(_)
convertObjectValues(c) ==
    [kind |-> c.kind,
     entries |-> [i \in 1..Len(c.entries) |->
                    [key |-> c.entries[i].key,
                     vk |-> c.entries[i].vk,
                     items |-> [j \in 1..Len(c.entries[i].items) |->
                                    convertObjectValues(c.entries[i].items[j])],
                     ops |-> [j \in 1..Len(c.entries[i].ops) |->
                                OpV(c.entries[i].ops[j].op, convertValue(c.entries[i].ops[j].val))],
                     val |-> convertValue(c.entries[i].val)]],
     items |-> [i \in 1..Len(c.items) |-> convertObjectValues(c.items[i])]]

\* RequestQueryParser.convertObjectValues on relation names
RECURSIVE convertRelations(_)
convertRelations(r) ==
    [kind |-> r.kind, name |-> convertString(r.name),
     items |-> [i \in 1..Len(r.items) |-> convertRelations(r.items[i])],
     entries |-> r.entries]

\* RequestQueryParser.convertObjectValues on an order object
convertOrder(order) ==
    [i \in 1..Len(order) |-> [key |-> order[i].key, dir |-> Head(convertString(<<order[i].dir>>))]]

\* RequestQueryParser.convertObjectValues on a list of column names
convertSelect(select) == [i \in 1..Len(select) |-> convertString(select[i])]

\* qs.parse of an object whose keys hold neither a dot nor a bracket
qsParse(query) == query

\* the fields of { ...parsedQuery, ...options }
ParsedOptions(take, skip, withDeleted, onlyDeleted, where, relations, order, select) ==
    [take |-> take, skip |-> skip, withDeleted |-> withDeleted, onlyDeleted |-> onlyDeleted,
     where |-> where, relations |-> relations, order |-> order, select |-> select]

\* RequestQueryParser.parse, on the query qs.parse returned
parseQuery(parsedQuery) ==
    ParsedOptions(
           IF parsedQuery.limit.t # "undefined" THEN Num(parseInteger(parsedQuery.limit))
           ELSE IF parsedQuery.take.t # "undefined" THEN Num(parseInteger(parsedQuery.take))
           ELSE Absent,
           IF parsedQuery.offset.t # "undefined" THEN Num(parseInteger(parsedQuery.offset))
           ELSE IF parsedQuery.skip.t # "undefined" THEN Num(parseInteger(parsedQuery.skip))
           ELSE Absent,
           IF parsedQuery.withDeleted.t # "undefined"
           THEN Bool(parseBoolean(parsedQuery.withDeleted))
           ELSE Absent,
           IF parsedQuery.withDeleted.t # "undefined" THEN parsedQuery.onlyDeleted
           ELSE IF parsedQuery.onlyDeleted.t # "undefined"
           THEN Bool(parseBoolean(parsedQuery.onlyDeleted))
           ELSE Absent,
           IF parsedQuery.where.kind # "undefined" THEN convertObjectValues(parsedQuery.where)
           ELSE Undefined,
           IF parsedQuery.relations.kind # "none" THEN convertRelations(parsedQuery.relations)
           ELSE NoRelations,
           convertOrder(parsedQuery.order),
           convertSelect(parsedQuery.select))

\* RequestQueryParser.parse
parse(query) == parseQuery(qsParse(query))

\* the truth of a value in a condition
Truthy(value) ==
    CASE value.t = "boolean" -> value.b
      [] value.t = "string" -> value.s # <<>>
      [] value.t = "number" -> value.n # 0
      [] OTHER -> FALSE

\* the decimal digits of a number
RECURSIVE DigitsOf(_)
DigitsOf(n) == IF n < 10 THEN <<n>> ELSE Append(DigitsOf(n \div 10), n % 10)

\* the parsed options as FindQueryBuilder.build reads them
BuildOptions(parsed) ==
    Options(IF parsed.take.t = "undefined" THEN <<>> ELSE DigitsOf(parsed.take.n),
            IF parsed.skip.t = "undefined" THEN <<>> ELSE DigitsOf(parsed.skip.n),
            Truthy(parsed.withDeleted), Truthy(parsed.onlyDeleted),
            parsed.select, parsed.relations, parsed.where, parsed.order)

\* new FindQueryBuilder(this.repository)
NewFindQueryBuilder ==
    [findOptions |-> NoFindOptions, wheres |-> <<>>, joins |-> <<>>, fields |-> <<>>,
     hash |-> EmptyMap, idx |-> 0, orderBys |-> <<>>, selects |-> <<>>, log |-> <<>>,
     err |-> ""]

\* a service that keeps the instance of the call that began before
InstanceForMutant(r, reqs) ==
    IF \E r2 \in DOMAIN reqs : r2 # r /\ reqs[r2].pc \in {"hook", "execute", "done"}
    THEN [reqs[CHOOSE r2 \in DOMAIN reqs :
                    r2 # r /\ reqs[r2].pc \in {"hook", "execute", "done"}].b
            EXCEPT !.log = <<>>]
    ELSE NewFindQueryBuilder

\* const queryBuilder = new FindQueryBuilder(this.repository), in call r
InstanceFor(r, reqs) == NewFindQueryBuilder

\* findMany up to its first await: parse, new FindQueryBuilder, build
FindManyBuilt(query, del, db, inst) == FindBuild(BuildOptions(parse(query)), del, db, inst)

\* the operators an object has as the value of a key: its own keys
OperatorsOfObject(entries) ==
    [i \in 1..Len(entries) |-> OpV(entries[i].key[1], entries[i].val)]

\* the own keys of ...(where || {}): those of an object, the indices of an array
Spread(where) ==
    IF where.kind = "object" THEN where.entries
    ELSE [i \in 1..Len(where.items) |->
            Ops(ToString(i - 1), OperatorsOfObject(where.items[i].entries))]

\* { id: { $eq: id }, ...(parsedOptions?.where || {}) }; the keys of an
\* array are integers, which an object enumerates before its other keys
whereWithId(id, where) ==
    IF where.kind = "array"
    THEN Obj(Spread(where) \o <<Ops("id", <<OpV("$eq", Scalar(id))>>)>>)
    ELSE Obj(ObjectAssign(<<Ops("id", <<OpV("$eq", Scalar(id))>>)>>, Spread(where), 1))

\* findOne up to its first await
FindOneBuilt(id, query, del, db, inst) ==
    FindBuild([BuildOptions(parse(query)) EXCEPT !.where = whereWithId(id, parse(query).where)],
              del, db, inst)

\* a call of the service: where it is, what it was given, what parse
\* returned, its FindQueryBuilder, and whether its query found a row
Call(pc, kind, id, query, options, b, found) ==
    [pc |-> pc, kind |-> kind, id |-> id, query |-> query, options |-> options,
     b |-> b, found |-> found]

NoQuery ==
    Query(Absent, Absent, Absent, Absent, Absent, Absent, Undefined, NoRelations, <<>>, <<>>)

NoParsedOptions ==
    ParsedOptions(Absent, Absent, Absent, Absent, Undefined, NoRelations, <<>>, <<>>)

\* a call that was not made yet
Idle == Call("idle", "", <<>>, NoQuery, NoParsedOptions, NewFindQueryBuilder, FALSE)

\* a call that was made and has not run yet
Given(kind, id, query) ==
    Call("given", kind, id, query, NoParsedOptions, NewFindQueryBuilder, FALSE)

----------------------------------------------------------------------------
(* Inputs *)

MaxCalls == 2       \* calls made on one instance
MaxRelKeys == 2     \* keys of a relation object, elements of a relation array

V1 == Scalar(<<"1">>)
V2 == Scalar(<<"2">>)
Range12 == ArrayOf(<< <<"1">>, <<"2">> >>)
EmptyArray == ArrayOf(<<>>)

AEq1 == Lit("a", <<"1">>)
BEq2 == Lit("b", <<"2">>)
BInEmpty == Ops("b", <<OpV("$in", EmptyArray)>>)
ARange == Ops("a", <<OpV("$gte", V1), OpV("$lte", V2)>>)
BBetween == Ops("b", <<OpV("$between", Range12)>>)
BIsNull == Ops("b", <<OpV("$isNull", Scalar(<<"true">>))>>)
CNoOps == Ops("c", <<>>)

\* objects of comparisons only
LeafObjects ==
    {Obj(<<>>), Obj(<<AEq1>>), Obj(<<BEq2>>), Obj(<<BInEmpty>>), Obj(<<ARange>>),
     Obj(<<BBetween>>), Obj(<<BIsNull>>), Obj(<<CNoOps>>), Obj(<<AEq1, BEq2>>),
     Obj(<<AEq1, BIsNull>>), Obj(<<AEq1, BInEmpty>>)}

\* the elements the groups are built from
Elements == {Obj(<<>>), Obj(<<AEq1>>), Obj(<<BInEmpty>>), Obj(<<ARange>>), Obj(<<BBetween>>)}

GroupKeys == {"$and", "$or"}

\* the arrays of at most two of the given conditions
UpToTwo(S) == {<<>>} \cup {<<x>> : x \in S} \cup {<<x, y>> : x \in S, y \in S}

\* the arrays that hold one of S, alone or beside one element
OneOf(S) == {<<x>> : x \in S} \cup {<<x, y>> : x \in S, y \in Elements}
                \cup {<<y, x>> : x \in S, y \in Elements}

\* a group alone, or with a sibling key before or after it
WithSiblings(groups) ==
    {Obj(<<g>>) : g \in groups} \cup {Obj(<<BEq2, g>>) : g \in groups}
        \cup {Obj(<<g, BEq2>>) : g \in groups}

Groups1 == {Group(k, items) : k \in GroupKeys, items \in UpToTwo(Elements)}
Nested1 == WithSiblings(Groups1)
Groups2 == {Group(k, items) : k \in GroupKeys, items \in OneOf({Obj(<<g>>) : g \in Groups1})}
Nested2 == WithSiblings(Groups2)
BothGroups == {Obj(<<Group("$and", <<x>>), Group("$or", <<y, z>>)>>) :
                    x \in Elements, y \in Elements, z \in Elements}

\* the filters given to buildWhereQueryAndParams
FilterPool ==
    {Undefined, Arr(<<>>)} \cup LeafObjects \cup Nested1 \cup Nested2 \cup BothGroups

\* the case labels of parseWhereObjectToQueryAndParams: the members of
\* WhereOperatorEnum, by value where the enum under src/ has them and by
\* member name otherwise
WhereOperatorEnum ==
    {"$eq", "$ne", "$gt", "$gte", "$lt", "$lte", "$like", "$notLike", "$iLike", "$notIlike",
     "STARTS_WITH", "ENDS_WITH", "ISTARTS_WITH", "IENDS_WITH", "IN_L", "NOT_IN_L", "$in",
     "$notIn", "CONT_ARR", "INTERSECTS_ARR", "$isNull", "$isNotNull", "$between",
     "$notBetween", "$isTrue", "$isFalse"}

\* operator keys that are no member of the enum
OtherOperators == {"$regex", "$foo"}

\* one operator on the field b, with a scalar, an empty array or an array
OperatorLeaves ==
    {Ops("b", <<OpV(o, v)>>) : o \in WhereOperatorEnum \cup OtherOperators,
                                v \in {V1, EmptyArray, Range12}}

\* $and / $or keys whose value is an empty array or one filter object
LooseGroups ==
    {Group(k, <<>>) : k \in GroupKeys}
        \cup {GroupObject(k, c) : k \in GroupKeys,
                                  c \in {Obj(<<AEq1>>), Obj(<<Ops("a", <<OpV("$regex", V1)>>)>>)}}

\* the filters with one operator: alone, after an equality, or inside a
\* group; and the filters with a loose group, alone or beside an equality
OperatorPool ==
    {Obj(<<e>>) : e \in OperatorLeaves}
        \cup {Obj(<<AEq1, e>>) : e \in OperatorLeaves}
        \cup {Obj(<<Group("$or", <<Obj(<<AEq1>>), Obj(<<e>>)>>)>>) : e \in OperatorLeaves}
        \cup {Obj(<<g>>) : g \in LooseGroups}
        \cup {Obj(<<BEq2, g>>) : g \in LooseGroups}
        \cup {Obj(<<g, BEq2>>) : g \in LooseGroups}

\* the filters given to WhereQueryBuilder.build on an instance that is called
\* more than once
SmallFilterPool ==
    {Undefined, Arr(<<>>), Obj(<<>>), Obj(<<AEq1>>), Obj(<<BInEmpty>>), Obj(<<BBetween>>),
     Arr(<<Obj(<<AEq1>>), Obj(<<BEq2>>)>>),
     Obj(<<Group("$or", <<Obj(<<>>), Obj(<<CNoOps>>)>>)>>),
     Obj(<<AEq1, Ops("b", <<OpV("$regex", V1)>>)>>),
     Obj(<<AEq1, Ops("b", <<OpV("IN_L", V1)>>)>>),
     Obj(<<AEq1, Ops("b", <<OpV("CONT_ARR", Range12)>>)>>)}

Profile == <<"profile">>
Posts == <<"posts">>
ProfileAddresses == <<"profile", DOT, "addresses">>
ProfileAddressesCountry == <<"profile", DOT, "addresses", DOT, "country">>
PostsComments == <<"posts", DOT, "comments">>
Bogus == <<"bogus">>
ProfileBogus == <<"profile", DOT, "bogus">>

RelationPaths ==
    {Profile, Posts, ProfileAddresses, ProfileAddressesCountry, PostsComments, Bogus,
     ProfileBogus}

RelationValues ==
    {RelBool(TRUE),
     RelCfg("inner", <<>>, Undefined),
     RelCfg("", << <<"age">>, <<"city">>, <<"zip">> >>, Undefined),
     RelCfg("left", << <<"name">>, <<"id">> >>, Undefined),
     RelCfg("", <<>>, Obj(<<AEq1>>))}

RelEntries == {RelEntry(k, v) : k \in RelationPaths, v \in RelationValues}

\* the entry lists of at most n keys, no key twice
RECURSIVE EntryLists(_)
EntryLists(n) ==
    IF n = 0 THEN {<<>>}
    ELSE LET shorter == EntryLists(n - 1)
         IN  shorter \cup UNION {{Append(es, e) : e \in {y \in RelEntries :
                                                               y.key \notin Range(Keys(es))}} :
                                  es \in {x \in shorter : Len(x) = n - 1}}

\* the arrays of at most n relation names
RECURSIVE NameLists(_)
NameLists(n) ==
    IF n = 0 THEN {<<>>}
    ELSE LET shorter == NameLists(n - 1)
         IN  shorter \cup {Append(ns, RelString(k)) : ns \in {x \in shorter : Len(x) = n - 1},
                                                       k \in RelationPaths}

\* the relation specifications given to JoinQueryBuilder.build
RelationPool ==
    {RelString(k) : k \in RelationPaths}
        \cup {RelArray(ns) : ns \in NameLists(MaxRelKeys)}
        \cup {RelObject(es) : es \in EntryLists(MaxRelKeys)}

\* relation names, one of them with an underscore
AliasSegments == {<<"addresses">>, <<"country">>, <<"addresses", US, "country">>}

\* the paths below profile of at most three segments
AliasPaths ==
    {Profile}
        \cup {Profile \o <<DOT>> \o x : x \in AliasSegments}
        \cup {Profile \o <<DOT>> \o x \o <<DOT>> \o y : x, y \in AliasSegments}

\* two relation paths given together
PathPairs == {RelArray(<<RelString(p), RelString(q)>>) : p, q \in AliasPaths}

\* the relation specifications given to an instance that is called more than once
SmallRelationPool ==
    {RelString(Profile),
     RelArray(<<RelString(Posts), RelObject(<<RelEntry(Profile, RelCfg("inner", <<>>, Undefined))>>)>>),
     RelObject(<<RelEntry(ProfileAddressesCountry, RelBool(TRUE))>>),
     RelObject(<<RelEntry(ProfileAddresses, RelCfg("", << <<"city">> >>, Undefined)),
                 RelEntry(Profile, RelCfg("", << <<"age">> >>, Undefined))>>),
     RelObject(<<RelEntry(Posts, RelCfg("", <<>>, Obj(<<AEq1>>))), RelEntry(Bogus, RelBool(TRUE))>>),
     RelObject(<<RelEntry(ProfileBogus, RelBool(TRUE))>>)}

DbTypes == {"sqlite", "postgres", "mysql"}

\* the dialects convertToText and getIdentifierQuote tell apart, and one
\* that neither knows
Dialects == DbTypes \cup {"mariadb", "mssql", "oracle", "cockroachdb"}

DeleteDateColumns == {<<>>, <<"deletedAt">>}

ProfileAge == <<"profile", DOT, "age">>

SelectLists ==
    {<<>>, << <<"name">> >>, <<ProfileAge>>, <<ProfileAddresses>>,
     << <<"id">>, <<"name">>, <<"id">> >>}

FindRelations ==
    {NoRelations, RelString(Profile),
     RelObject(<<RelEntry(Profile, RelCfg("", << <<"age">> >>, Undefined))>>),
     RelObject(<<RelEntry(ProfileAddresses, RelBool(TRUE))>>),
     RelString(Bogus)}

FindWheres ==
    {Undefined, Obj(<<>>), Obj(<<AEq1>>), Obj(<<AEq1, Ops("b", <<OpV("$regex", V1)>>)>>)}

OrderBy(key, dir) == [key |-> key, dir |-> dir]

Orders ==
    {<<>>, <<OrderBy(<<"name">>, "ASC")>>, <<OrderBy(ProfileAge, "DESC")>>,
     <<OrderBy(ProfileAddresses, "ASC")>>,
     <<OrderBy(<<"name">>, "ASC"), OrderBy(ProfileAge, "DESC")>>}

\* the options given to FindQueryBuilder.build
OptionsPool ==
    {NoOptions}
        \cup {Options(take, skip, withDeleted, onlyDeleted, select, relations, where, order) :
                take \in {<<>>, <<1, 0>>}, skip \in {<<>>, <<5>>},
                withDeleted \in BOOLEAN, onlyDeleted \in BOOLEAN, select \in SelectLists,
                relations \in FindRelations, where \in FindWheres, order \in Orders}

\* the options given to an instance that is called more than once
SmallOptionsPool ==
    {NoOptions,
     Options(<<>>, <<>>, FALSE, FALSE, <<>>, NoRelations, Undefined, <<>>),
     Options(<<>>, <<>>, FALSE, FALSE, << <<"name">> >>, NoRelations, Undefined, <<>>),
     Options(<<1, 0>>, <<5>>, FALSE, TRUE, <<ProfileAge>>,
             RelObject(<<RelEntry(Profile, RelCfg("", << <<"age">> >>, Undefined))>>),
             Obj(<<AEq1>>), <<OrderBy(ProfileAge, "DESC")>>),
     Options(<<>>, <<>>, TRUE, FALSE, << <<"name">> >>, RelString(Profile),
             Obj(<<AEq1, Ops("b", <<OpV("$regex", V1)>>)>>), <<OrderBy(<<"name">>, "ASC")>>)}

\* the calls of the service that can be in progress together
Requests == {1, 2}

TrueString == <<"t", "r", "u", "e">>
FalseString == <<"f", "a", "l", "s", "e">>

\* limit, take, offset and skip of the sample queries
Paginations ==
    {<<Absent, Absent, Absent, Absent>>,
     <<Str(<<"1", "0">>), Absent, Str(<<"5">>), Absent>>,
     <<Absent, Str(<<"2", "5">>), Absent, Str(<<"x">>)>>,
     <<Str(<<"3">>), Str(<<"7">>), Absent, Num(4)>>}

\* the queries given to RequestQueryParser.parse
ParsePool ==
    {Query(p[1], p[2], p[3], p[4], withDeleted, onlyDeleted, where, NoRelations, <<>>, <<>>) :
        p \in Paginations,
        withDeleted \in {Absent, Str(TrueString), Str(FalseString), Bool(TRUE)},
        onlyDeleted \in {Absent, Str(TrueString), Str(<<"T", "R", "U", "E">>),
                         Str(FalseString), Str(<<"1">>), Bool(FALSE)},
        where \in {Undefined, Obj(<<Lit("a", <<"TRUE">>)>>)}}

\* the route parameter of findOne
Ids == {<<"7">>}

\* the queries given to the calls of the service
ServiceQueries ==
    {NoQuery,
     Query(Absent, Absent, Absent, Absent, Absent, Absent, Obj(<<AEq1>>), NoRelations,
           <<>>, << <<"name">> >>),
     Query(Absent, Absent, Absent, Absent, Absent, Absent, Obj(<<Lit("id", <<"5">>)>>),
           NoRelations, <<>>, <<>>),
     Query(Absent, Absent, Absent, Absent, Absent, Absent, Arr(<<Obj(<<AEq1>>)>>),
           NoRelations, <<>>, <<>>),
     Query(Absent, Absent, Absent, Absent, Str(TrueString), Str(FalseString), Undefined,
           NoRelations, <<>>, <<>>),
     Query(Str(<<"1", "0">>), Absent, Absent, Absent, Absent, Absent,
           Obj(<<Group("$or", <<Obj(<<AEq1>>), Obj(<<BEq2>>)>>)>>),
           RelArray(<<RelString(Profile)>>), <<OrderBy(<<"name">>, "ASC")>>, <<>>)}

----------------------------------------------------------------------------
(* The state machine *)

\* no call of the service was made
NoRequests == [r \in Requests |-> Idle]

NoWhereOut == [query |-> <<>>, params |-> EmptyMap, err |-> ""]
NoRelOut == [emitted |-> <<>>, err |-> ""]
NoFindOut == [log |-> <<>>, err |-> ""]

\* a new FindQueryBuilder: its builder, helper, WhereQueryBuilder and JoinQueryBuilder
FreshInstance ==
    /\ paramIndex = 0
    /\ wheres = <<>>
    /\ joins = <<>>
    /\ selectedFields = <<>>
    /\ entityRelationsHash = EmptyMap
    /\ calls = 0
    /\ whereOut = NoWhereOut
    /\ relOut = NoRelOut
    /\ findOptions = NoFindOptions
    /\ orderBys = <<>>
    /\ selects = <<>>
    /\ findOut = NoFindOut

\* a new instance on a connection of one of the dialects of DbTypes
Fresh == dbType \in DbTypes /\ FreshInstance

Init ==
    /\ Fresh /\ op = "new" /\ whereIn = Undefined /\ relIn = RelObject(<<>>)
    /\ optIn = NoOptions /\ deleteDateColumn \in DeleteDateColumns
    /\ requests = NoRequests

\* the call whereQueryBuilder.buildWhereQueryAndParams(w) returning r
Compiled(w, r) ==
    /\ paramIndex' = r.idx
    /\ entityRelationsHash' = r.hash
    /\ whereIn' = w
    /\ whereOut' = [query |-> r.query, params |-> r.params, err |-> r.err]
    /\ op' = "compile"
    /\ calls' = calls + 1
    /\ UNCHANGED <<requests, dbType, wheres, joins, selectedFields, relIn, relOut, deleteDateColumn,
                   findOptions, orderBys, selects, optIn, findOut>>

DoCompile(w) ==
    Compiled(w, buildWhereQueryAndParams(w, paramIndex, entityRelationsHash, dbType))

\* the call whereQueryBuilder.build(w) returning r
WhereBuilt(w, r) ==
    /\ paramIndex' = r.idx
    /\ entityRelationsHash' = r.hash
    /\ wheres' = r.clauses
    /\ whereIn' = w
    /\ whereOut' = [query |-> r.query, params |-> r.params, err |-> r.err]
    /\ op' = "where"
    /\ calls' = calls + 1
    /\ UNCHANGED <<requests, dbType, joins, selectedFields, relIn, relOut, deleteDateColumn,
                   findOptions, orderBys, selects, optIn, findOut>>

DoWhereBuild(w) ==
    WhereBuilt(w, WhereBuild(w, paramIndex, entityRelationsHash, dbType, wheres))

\* the call joinQueryBuilder.build(c) leaving the builder and the helper as st
JoinBuilt(c, st) ==
    /\ joins' = st.joins
    /\ selectedFields' = st.fields
    /\ entityRelationsHash' = st.hash
    /\ relIn' = c
    /\ relOut' = [emitted |-> SubSeq(st.joins, Len(joins) + 1, Len(st.joins)),
                  err |-> st.err]
    /\ op' = "join"
    /\ calls' = calls + 1
    /\ UNCHANGED <<requests, dbType, paramIndex, wheres, whereIn, whereOut, deleteDateColumn,
                   findOptions, orderBys, selects, optIn, findOut>>

DoJoinBuild(c) ==
    JoinBuilt(c, JoinBuild(c, Plan(joins, selectedFields, entityRelationsHash, "")))

\* the call findQueryBuilder.build(o) leaving the builder and the helper as b
FindBuilt(o, b) ==
    /\ findOptions' = b.findOptions
    /\ wheres' = b.wheres
    /\ joins' = b.joins
    /\ selectedFields' = b.fields
    /\ entityRelationsHash' = b.hash
    /\ paramIndex' = b.idx
    /\ orderBys' = b.orderBys
    /\ selects' = b.selects
    /\ optIn' = o
    /\ findOut' = [log |-> b.log, err |-> b.err]
    /\ op' = "find"
    /\ calls' = calls + 1
    /\ UNCHANGED <<requests, dbType, deleteDateColumn, whereIn, whereOut, relIn, relOut>>

DoFindBuild(o) ==
    FindBuilt(o, FindBuild(o, deleteDateColumn, dbType,
                           [findOptions |-> findOptions, wheres |-> wheres, joins |-> joins,
                            fields |-> selectedFields, hash |-> entityRelationsHash,
                            idx |-> paramIndex, orderBys |-> orderBys, selects |-> selects,
                            log |-> <<>>, err |-> ""]))

CallCompile == \E w \in SmallFilterPool : op # "given" /\ calls < MaxCalls /\ DoCompile(w)
CallWhereBuild == \E w \in SmallFilterPool : op # "given" /\ calls < MaxCalls /\ DoWhereBuild(w)
CallJoinBuild == \E c \in SmallRelationPool : op # "given" /\ calls < MaxCalls /\ DoJoinBuild(c)
CallFindBuild == \E o \in SmallOptionsPool : op # "given" /\ calls < MaxCalls /\ DoFindBuild(o)

Next == CallCompile \/ CallWhereBuild \/ CallJoinBuild \/ CallFindBuild

Spec == Init /\ [][Next]_vars

\* the predicate compiler as a function: one filter of FilterPool, compiled by
\* a new instance
InitCompile ==
    /\ Fresh /\ op = "given" /\ whereIn \in FilterPool /\ relIn = RelObject(<<>>)
    /\ optIn = NoOptions /\ deleteDateColumn = <<>>
    /\ requests = NoRequests
CompileGiven == op = "given" /\ DoCompile(whereIn)
NextCompile == CompileGiven
SpecCompile == InitCompile /\ [][NextCompile]_vars

\* the join planner as a function: one relation specification of RelationPool,
\* planned by a new instance
InitPlan ==
    /\ Fresh /\ op = "given" /\ whereIn = Undefined /\ relIn \in RelationPool
    /\ optIn = NoOptions /\ deleteDateColumn = <<>>
    /\ requests = NoRequests
PlanGiven == op = "given" /\ DoJoinBuild(relIn)
NextPlan == PlanGiven
SpecPlan == InitPlan /\ [][NextPlan]_vars

\* the operator switch of the predicate compiler: one filter of OperatorPool,
\* compiled or built by a new instance
InitOperators ==
    /\ dbType \in Dialects /\ FreshInstance /\ op = "given" /\ whereIn \in OperatorPool /\ relIn = RelObject(<<>>)
    /\ optIn = NoOptions /\ deleteDateColumn = <<>>
    /\ requests = NoRequests
CompileOperator == op = "given" /\ DoCompile(whereIn)
BuildOperator == op = "given" /\ DoWhereBuild(whereIn)
NextOperators == CompileOperator \/ BuildOperator
SpecOperators == InitOperators /\ [][NextOperators]_vars

\* the alias scheme of the join planner: two relation paths of AliasPaths,
\* planned together by a new instance
InitAlias ==
    /\ Fresh /\ op = "given" /\ whereIn = Undefined /\ relIn \in PathPairs
    /\ optIn = NoOptions /\ deleteDateColumn = <<>>
    /\ requests = NoRequests
PlanPair == op = "given" /\ DoJoinBuild(relIn)
NextAlias == PlanPair
SpecAlias == InitAlias /\ [][NextAlias]_vars

\* FindQueryBuilder.build as a function: one options object of OptionsPool,
\* built by a new instance
InitFind ==
    /\ Fresh /\ op = "given" /\ whereIn = Undefined /\ relIn = RelObject(<<>>)
    /\ optIn \in OptionsPool /\ deleteDateColumn \in DeleteDateColumns
    /\ requests = NoRequests
FindGiven == op = "given" /\ DoFindBuild(optIn)
NextFind == FindGiven
SpecFind == InitFind /\ [][NextFind]_vars

\* call r has run up to its first await and left its FindQueryBuilder as b
Begun(r, kind, id, query, options, b) ==
    /\ requests' = [requests EXCEPT ![r] = Call(IF b.err # "" THEN "failed" ELSE "hook",
                                                kind, id, query, options, b, FALSE)]
    /\ UNCHANGED instance

\* CrudService.findMany(query), up to await this.beforeFindMany
BeginFindMany ==
    \E r \in Requests, q \in ServiceQueries :
        /\ requests[r].pc = "idle"
        /\ Begun(r, "findMany", <<>>, q, parse(q),
                 FindManyBuilt(q, deleteDateColumn, dbType, InstanceFor(r, requests)))

\* CrudService.findOne(id, query), up to await this.beforeFindOne
BeginFindOne ==
    \E r \in Requests, id \in Ids, q \in ServiceQueries :
        /\ requests[r].pc = "idle"
        /\ Begun(r, "findOne", id, q, parse(q),
                 FindOneBuilt(id, q, deleteDateColumn, dbType, InstanceFor(r, requests)))

\* the hook beforeFindMany / beforeFindOne returns the builder it was given
Hook ==
    \E r \in Requests :
        /\ requests[r].pc = "hook"
        /\ requests' = [requests EXCEPT ![r].pc = "execute"]
        /\ UNCHANGED instance

\* builder.getManyAndCount() / builder.getOne(): findOne raises
\* NotFoundException when no row matches
Execute ==
    \E r \in Requests, found \in BOOLEAN :
        /\ requests[r].pc = "execute"
        /\ found \/ requests[r].kind = "findOne"
        /\ requests' = [requests EXCEPT ![r].pc = "done", ![r].found = found]
        /\ UNCHANGED instance

NextService == BeginFindMany \/ BeginFindOne \/ Hook \/ Execute

\* the calls of one CrudService, interleaved at their awaits
SpecService == Init /\ [][NextService]_vars

\* the parser as a function: one query of ParsePool, given to findMany
InitParse ==
    /\ Fresh /\ op = "given" /\ whereIn = Undefined /\ relIn = RelObject(<<>>)
    /\ optIn = NoOptions /\ deleteDateColumn \in DeleteDateColumns
    /\ requests \in {[r \in {1} |-> Given("findMany", <<>>, q)] : q \in ParsePool}
FindManyGiven ==
    /\ requests[1].pc = "given"
    /\ Begun(1, "findMany", <<>>, requests[1].query, parse(requests[1].query),
             FindManyBuilt(requests[1].query, deleteDateColumn, dbType,
                           InstanceFor(1, requests)))
NextParse == FindManyGiven
SpecParse == InitParse /\ [][NextParse]_vars

----------------------------------------------------------------------------
(* Reading a compiled fragment as SQL: OR binds loosest, then AND, then a   *)
(* parenthesized expression or one predicate; the AND of a BETWEEN belongs *)
(* to the BETWEEN.  A predicate is true or false as the assignment asg     *)
(* says for the comparison it makes (column, operator, bound values); a    *)
(* comparison of two numbers is decided by the numbers.                    *)

Comparison(col, o, vals) == [col |-> col, op |-> o, vals |-> vals]

UnaryOps == {"IS NULL", "IS NOT NULL", "IS TRUE", "IS FALSE"}
RangeOps == {"BETWEEN", "NOT BETWEEN"}
ListOps == {"IN", "NOT IN"}

Parsed(val, pos, ok) == [val |-> val, pos |-> pos, ok |-> ok]
Unparsed == Parsed(FALSE, 0, FALSE)

Bound(params, tok) == IF tok.s \in DOMAIN params THEN params[tok.s] ELSE NoValue

SqlPredicate(toks, i, params, asg) ==
    IF i + 1 > Len(toks) \/ toks[i].t \notin {"col", "num"} \/ toks[i + 1].t # "op"
    THEN Unparsed
    ELSE LET o == toks[i + 1].s[1]
             col == toks[i].s
         IN  IF o \in UnaryOps
             THEN Parsed(asg[Comparison(col, o, <<>>)], i + 2, toks[i].t = "col")
             ELSE IF o \in RangeOps
             THEN IF i + 4 <= Len(toks) /\ toks[i + 2].t = "param" /\ toks[i + 3] = KwAnd
                     /\ toks[i + 4].t = "param"
                  THEN Parsed(asg[Comparison(col, o, <<Bound(params, toks[i + 2]),
                                                       Bound(params, toks[i + 4])>>)],
                              i + 5, TRUE)
                  ELSE Unparsed
             ELSE IF o \in ListOps
             THEN IF i + 4 <= Len(toks) /\ toks[i + 2] = LP /\ toks[i + 3].t = "spread"
                     /\ toks[i + 4] = RP
                  THEN Parsed(asg[Comparison(col, o, <<Bound(params, toks[i + 3])>>)],
                              i + 5, TRUE)
                  ELSE Unparsed
             ELSE IF i + 2 > Len(toks) THEN Unparsed
             ELSE IF toks[i].t = "num"
             THEN Parsed(o = "=" /\ toks[i].s = toks[i + 2].s, i + 3, toks[i + 2].t = "num")
             ELSE Parsed(asg[Comparison(col, o, <<Bound(params, toks[i + 2])>>)], i + 3,
                         toks[i + 2].t \in {"param", "lower", "array"})

RECURSIVE SqlOr(_, _, _, _)
RECURSIVE SqlOrRest(_, _, _, _)
RECURSIVE SqlAnd(_, _, _, _)
RECURSIVE SqlAndRest(_, _, _, _)
RECURSIVE SqlFactor(_, _, _, _)

SqlFactor(toks, i, params, asg) ==
    IF i > Len(toks) THEN Unparsed
    ELSE IF toks[i] = LP
    THEN LET e == SqlOr(toks, i + 1, params, asg)
         IN  IF e.ok /\ e.pos <= Len(toks) /\ toks[e.pos] = RP
             THEN Parsed(e.val, e.pos + 1, TRUE) ELSE Unparsed
    ELSE SqlPredicate(toks, i, params, asg)

SqlAndRest(toks, l, params, asg) ==
    IF l.ok /\ l.pos <= Len(toks) /\ toks[l.pos] = KwAnd
    THEN LET r == SqlFactor(toks, l.pos + 1, params, asg)
         IN  SqlAndRest(toks, Parsed(l.val /\ r.val, r.pos, r.ok), params, asg)
    ELSE l

SqlAnd(toks, i, params, asg) == SqlAndRest(toks, SqlFactor(toks, i, params, asg), params, asg)

SqlOrRest(toks, l, params, asg) ==
    IF l.ok /\ l.pos <= Len(toks) /\ toks[l.pos] = KwOr
    THEN LET r == SqlAnd(toks, l.pos + 1, params, asg)
         IN  SqlOrRest(toks, Parsed(l.val \/ r.val, r.pos, r.ok), params, asg)
    ELSE l

SqlOr(toks, i, params, asg) == SqlOrRest(toks, SqlAnd(toks, i, params, asg), params, asg)

\* "T" / "F": what the fragment evaluates to; "N": no fragment; "?": not SQL
SqlValue(query, params, asg) ==
    IF query = <<>> THEN "N"
    ELSE LET e == SqlOr(query, 1, params, asg)
         IN  IF ~e.ok \/ e.pos # Len(query) + 1 THEN "?"
             ELSE IF e.val THEN "T" ELSE "F"

----------------------------------------------------------------------------
(* What a filter tree means: a comparison is true or false as asg says     *)
(* (membership in an empty list is false); the keys of an object are       *)
(* ANDed; a $and / $or group is the AND / OR of its elements; an empty      *)
(* object, an empty operator map and a group without elements are absent   *)
(* ("N"), and an absent part is left out of what contains it.              *)

SqlOperatorOf(operator) ==
    CASE operator = "$eq" -> "=" [] operator = "$ne" -> "!="
      [] operator = "$gt" -> ">" [] operator = "$gte" -> ">="
      [] operator = "$lt" -> "<" [] operator = "$lte" -> "<="
      [] operator = "$in" -> "IN" [] operator = "$notIn" -> "NOT IN"
      [] operator = "$isNull" -> "IS NULL" [] operator = "$isNotNull" -> "IS NOT NULL"
      [] operator = "$between" -> "BETWEEN" [] operator = "$notBetween" -> "NOT BETWEEN"
      [] operator = "$isTrue" -> "IS TRUE" [] operator = "$isFalse" -> "IS FALSE"
      [] OTHER -> operator

ValuesOf(operator, val) ==
    IF SqlOperatorOf(operator) \in UnaryOps THEN <<>>
    ELSE IF SqlOperatorOf(operator) \in RangeOps
    THEN <<Scalar(val.items[1]), Scalar(val.items[2])>>
    ELSE <<val>>

ColumnOf(key, db) == <<getIdentifierQuote(db)>> \o rootAlias \o <<getIdentifierQuote(db), DOT,
                                                                   getIdentifierQuote(db)>>
                        \o key \o <<getIdentifierQuote(db)>>

IsEmptyIn(operator, val) == operator = "$in" /\ val.arr /\ val.items = <<>>

ComparisonOf(key, operator, val, db) ==
    Comparison(ColumnOf(key, db), SqlOperatorOf(operator), ValuesOf(operator, val))

\* the comparisons of an entry's own key (not those inside a group)
OwnComparisons(e, db) ==
    IF e.vk = "object"
    THEN {ComparisonOf(e.key, e.ops[k].op, e.ops[k].val, db) :
            k \in {j \in 1..Len(e.ops) : ~IsEmptyIn(e.ops[j].op, e.ops[j].val)}}
    ELSE {ComparisonOf(e.key, "$eq", e.val, db)}

RECURSIVE ComparisonsOf(_, _)
ComparisonsOf(cond, db) ==
    UNION {IF cond.entries[i].key \in {<<"$and">>, <<"$or">>}
           THEN UNION {ComparisonsOf(cond.entries[i].items[j], db) :
                            j \in 1..Len(cond.entries[i].items)}
           ELSE OwnComparisons(cond.entries[i], db) : i \in 1..Len(cond.entries)}

Conj(vs) == IF vs \subseteq {"N"} THEN "N" ELSE IF "F" \in vs THEN "F" ELSE "T"
Disj(vs) == IF vs \subseteq {"N"} THEN "N" ELSE IF "T" \in vs THEN "T" ELSE "F"

LeafValue(key, operator, val, db, asg) ==
    IF IsEmptyIn(operator, val) THEN "F"
    ELSE IF asg[ComparisonOf(key, operator, val, db)] THEN "T" ELSE "F"

RECURSIVE TreeValue(_, _, _)
TreeValue(cond, db, asg) ==
    Conj({LET e == cond.entries[i]
          IN  IF e.key \in {<<"$and">>, <<"$or">>}
              THEN LET vs == {TreeValue(e.items[j], db, asg) : j \in 1..Len(e.items)}
                   IN  IF e.key = <<"$and">> THEN Conj(vs) ELSE Disj(vs)
              ELSE IF e.vk = "object"
              THEN Conj({LeafValue(e.key, e.ops[k].op, e.ops[k].val, db, asg) :
                            k \in 1..Len(e.ops)})
              ELSE LeafValue(e.key, "$eq", e.val, db, asg) : i \in 1..Len(cond.entries)})

\* the meaning of a filter: a root array is the AND of its elements
FilterValue(w, db, asg) ==
    IF w.kind = "array" THEN Conj({TreeValue(w.items[j], db, asg) : j \in 1..Len(w.items)})
    ELSE TreeValue(w, db, asg)

\* the number of parameter keys of the comparisons of a tree: two for a
\* BETWEEN / NOT BETWEEN; otherwise one, except that under "binding" a
\* comparison that binds no value (a null or boolean test, membership in an
\* empty list) has none
KeyCount(operator, val, counting) ==
    IF operator \in {"$between", "$notBetween"} THEN 2
    ELSE IF counting = "binding"
            /\ (operator \in {"$isNull", "$isNotNull", "$isTrue", "$isFalse"}
                \/ IsEmptyIn(operator, val))
    THEN 0
    ELSE 1

RECURSIVE CountOps(_, _, _)
CountOps(ops, k, counting) ==
    IF k > Len(ops) THEN 0
    ELSE KeyCount(ops[k].op, ops[k].val, counting) + CountOps(ops, k + 1, counting)

RECURSIVE CountKeys(_, _)
RECURSIVE CountItems(_, _, _)
RECURSIVE CountEntries(_, _, _)
CountItems(items, j, counting) ==
    IF j > Len(items) THEN 0
    ELSE CountKeys(items[j], counting) + CountItems(items, j + 1, counting)

CountEntries(entries, i, counting) ==
    IF i > Len(entries) THEN 0
    ELSE (IF entries[i].key \in {<<"$and">>, <<"$or">>}
          THEN CountItems(entries[i].items, 1, counting)
          ELSE IF entries[i].vk = "object" THEN CountOps(entries[i].ops, 1, counting)
          ELSE 1)
         + CountEntries(entries, i + 1, counting)

CountKeys(cond, counting) ==
    CountEntries(cond.entries, 1, counting) + CountItems(cond.items, 1, counting)

EmptyFilters == {Undefined, Arr(<<>>), Obj(<<>>)}

----------------------------------------------------------------------------
(* Claims *)

\* C1: a call that compiles {}, [] or undefined returns the empty fragment
\* and the empty parameter map, and a call of build with such a filter leaves
\* the builder's where clauses and their parameters as they were.
C1_EmptyPredicateIdentity ==
    [][(op' \in {"compile", "where"} /\ whereIn' \in EmptyFilters)
        => /\ whereOut'.query = <<>>
           /\ whereOut'.params = EmptyMap
           /\ whereOut'.err = ""
           /\ wheres' = wheres]_vars

\* build([]) was called on a builder that already had a where clause, which
\* is still the only one
C1_Witness ==
    /\ op = "where"
    /\ whereIn = Arr(<<>>)
    /\ calls = 2
    /\ Len(wheres) = 1

C3_EmptyInIsFalse ==
    (op = "compile" /\ whereIn = Obj(<<BInEmpty>>))
        => /\ whereOut.query = <<NumTok("1"), OpTok("="), NumTok("0")>>
           /\ whereOut.params = EmptyMap
           /\ whereOut.err = ""
           /\ \A asg \in [ComparisonsOf(Obj(<<Ops("b", <<OpV("$in", Range12)>>)>>), dbType)
                            -> BOOLEAN] :
                    SqlValue(whereOut.query, whereOut.params, asg) = "F"

C3_Witness ==
    /\ op = "compile"
    /\ whereIn = Obj(<<BInEmpty>>)
    /\ whereOut.query # <<>>

\* C4: read with SQL precedence (OR below AND below parentheses), the
\* compiled fragment has, under every assignment of truth values to the
\* comparisons, the value of the tree it was compiled from: sibling keys
\* ANDed, $and / $or groups the AND / OR of their elements; and there is no
\* fragment exactly when the tree holds no comparison.
C4_SqlMeansTree ==
    (op = "compile" /\ whereOut.err = "")
        => \A asg \in [ComparisonsOf(whereIn, dbType) -> BOOLEAN] :
                SqlValue(whereOut.query, whereOut.params, asg) = FilterValue(whereIn, dbType, asg)

\* an $or group beside a sibling inside an $and, compiled; the tree is
\* false where reading the fragment without its parentheses would give true
C4_Witness ==
    /\ op = "compile"
    /\ whereIn = Obj(<<Group("$and", <<Obj(<<AEq1>>),
                                       Obj(<<Group("$or", <<Obj(<<ARange>>),
                                                            Obj(<<BBetween>>)>>)>>)>>)>>)
    /\ whereOut.query # <<>>
    /\ \E asg \in [ComparisonsOf(whereIn, dbType) -> BOOLEAN] :
            /\ FilterValue(whereIn, dbType, asg) = "F"
            /\ asg[ComparisonOf(<<"b">>, "$between", Range12, dbType)]

\* the relation paths a relation specification lists
RECURSIVE ListedPaths(_)
ListedPaths(config) ==
    CASE config.kind = "string" -> {config.name}
      [] config.kind = "array" -> UNION {ListedPaths(config.items[i]) : i \in 1..Len(config.items)}
      [] OTHER -> {config.entries[i].key : i \in 1..Len(config.entries)}

\* a set of paths with every parent path of each
PrefixClosure(paths) ==
    UNION {{JoinStr(Slice(Split(p), i), DOT) : i \in 1..Len(Split(p))} : p \in paths}

ParentPath(path) == JoinStr(Slice(Split(path), Len(Split(path)) - 1), DOT)
LastSegment(path) == Split(path)[Len(Split(path))]

\* the entity a relation path leads to from the root entity
RECURSIVE Follow(_, _, _)
Follow(entity, segments, i) ==
    IF i > Len(segments) THEN entity
    ELSE IF segments[i] \in DOMAIN RelationsOf(entity)
    THEN Follow(RelationsOf(entity)[segments[i]], segments, i + 1)
    ELSE NoEntity

EntityAt(path) == Follow(RootEntity, Split(path), 1)

EmittedNames == {relOut.emitted[i].name : i \in 1..Len(relOut.emitted)}

\* the columns registered in the projection under an alias
RegisteredFor(alias) ==
    {c \in UNION {Range(ColumnsOf(e)) : e \in {"User", "Profile", "ProfileAddress", "Post",
                                               "Country", "Comment"}} :
        alias \o <<DOT>> \o c \in Range(selectedFields)}

\* the entries of an object specification that carry an explicit selection /
\* a filter of their own
SelectingEntries(config) ==
    {e \in Range(config.entries) : ~e.value.isBool /\ e.value.select # <<>>}
FilteringEntries(config) ==
    {e \in Range(config.entries) : ~e.value.isBool /\ e.value.where \notin EmptyFilters}

\* C5: when build returns, the paths it has joined are the listed paths and
\* all their parent paths, with exactly one join call for each of them.
C5_JoinsArePrefixClosure ==
    (op = "join" /\ relOut.err = "")
        => /\ EmittedNames = PrefixClosure(ListedPaths(relIn))
           /\ Len(relOut.emitted) = Cardinality(PrefixClosure(ListedPaths(relIn)))

\* {'profile.addresses.country': true} has been planned as three joins
C5_Witness ==
    /\ op = "join"
    /\ relIn = RelObject(<<RelEntry(ProfileAddressesCountry, RelBool(TRUE))>>)
    /\ relOut.err = ""
    /\ Len(relOut.emitted) = 3

\* C6: whatever the order in which the paths are declared, the join call for
\* a path of depth greater than one comes after the join call for its parent
\* path, and the alias it joins from is the alias that parent call created.
C6_ParentJoinedFirst ==
    op = "join"
        => \A i \in 1..Len(relOut.emitted) :
                Len(Split(relOut.emitted[i].name)) > 1
                    => \E j \in 1..(i - 1) :
                            /\ relOut.emitted[j].name = ParentPath(relOut.emitted[i].name)
                            /\ relOut.emitted[i].path
                                 = relOut.emitted[j].alias \o <<DOT>>
                                        \o LastSegment(relOut.emitted[i].name)

\* the deepest path declared first, a root path last
C6_Witness ==
    /\ op = "join"
    /\ relIn = RelArray(<<RelString(ProfileAddressesCountry), RelString(Posts)>>)
    /\ Len(relOut.emitted) = 4
    /\ relOut.emitted[2].name = Posts

\* C7: across the build calls made on one builder, no relation path is joined
\* more than once.
C7_OneJoinPerPath ==
    \A i, j \in 1..Len(joins) : joins[i].name = joins[j].name => i = j

\* C8: when a path of the plan, at the root or nested, names a relation that
\* does not exist on the entity it is reached from, build fails with
\* the error "Relation ... not found" for one of the paths.
C8_UnknownRelationFails ==
    (op = "join" /\ \E p \in PrefixClosure(ListedPaths(relIn)) : EntityAt(p) = NoEntity)
        => \E p \in PrefixClosure(ListedPaths(relIn)) :
                relOut.err = "Error: Relation '" \o Text(p, 1) \o "' not found"

\* C9: for a relation joined with an explicit non-empty select S, at any
\* depth, the columns registered under its alias are the columns of S that
\* exist on the relation together with the relation's primary key columns.
C9_SelectKeepsPrimaryKeys ==
    (op = "join" /\ relOut.err = "" /\ relIn.kind = "object")
        => \A e \in SelectingEntries(relIn) :
                EntityAt(e.key) # NoEntity
                    => RegisteredFor(ReplaceDots(e.key))
                         = (Range(e.value.select) \cap Range(ColumnsOf(EntityAt(e.key))))
                                \cup Range(PrimaryColumnsOf(EntityAt(e.key)))

\* C10: when a relation is given a where filter of its own, the built query
\* holds a predicate for it.
C10_RelationWhereApplied ==
    (op = "join" /\ relOut.err = "" /\ relIn.kind = "object" /\ FilteringEntries(relIn) # {})
        => \E k \in 1..Len(wheres) : wheres[k].query # <<>>

\* the value a specification gives for a listed path
ValueAt(config, path) == (CHOOSE e \in Range(config.entries) : e.key = path).value

\* the emitted join of a path
JoinOf(path) == CHOOSE j \in Range(relOut.emitted) : j.name = path

\* C11: in a plan that lists a deep path, an ancestor path the caller has
\* configured is joined with the caller's join type and registers the
\* caller's selection (the selected columns that exist, and nothing beyond
\* them and the primary key); an ancestor path the caller has not listed is
\* joined as a LEFT join and registers every column of its target.
C11_AncestorConfigRespected ==
    (op = "join" /\ relOut.err = "" /\ relIn.kind = "object")
        => \A p \in PrefixClosure(ListedPaths(relIn)) :
              (p \notin ListedPaths(relIn) \/ ~ValueAt(relIn, p).isBool)
              /\ EntityAt(p) # NoEntity
              /\ (\E q \in ListedPaths(relIn) : q # p /\ ParentPath(q) = p)
              => IF p \in ListedPaths(relIn)
                 THEN /\ JoinOf(p).type = (IF ValueAt(relIn, p).joinType = "inner"
                                           THEN "innerJoin" ELSE "leftJoin")
                      /\ ValueAt(relIn, p).select # <<>>
                            => LET chosen == Range(ValueAt(relIn, p).select)
                                                \cap Range(ColumnsOf(EntityAt(p)))
                               IN  /\ chosen \subseteq RegisteredFor(ReplaceDots(p))
                                   /\ RegisteredFor(ReplaceDots(p))
                                        \subseteq chosen \cup Range(PrimaryColumnsOf(EntityAt(p)))
                      /\ ValueAt(relIn, p).select = <<>>
                            => RegisteredFor(ReplaceDots(p)) = Range(ColumnsOf(EntityAt(p)))
                 ELSE /\ JoinOf(p).type = "leftJoin"
                      /\ RegisteredFor(ReplaceDots(p)) = Range(ColumnsOf(EntityAt(p)))

\* 'profile' listed as an INNER join with a selection, after its child
C11_Witness ==
    /\ op = "join"
    /\ relIn = RelObject(<<RelEntry(ProfileAddresses, RelBool(TRUE)),
                           RelEntry(Profile, RelCfg("inner", <<>>, Undefined))>>)
    /\ relOut.err = ""
    /\ relOut.emitted[1].type = "innerJoin"

\* the step of build a logged call belongs to: 1 pagination and soft-delete
\* flags (the soft-delete predicate is the andWhere made before
\* setFindOptions), 2 base column registration, 3 joins, 4 the predicate of
\* options.where, 5 order-by, 6 the SELECT list
StepOf(log, i) ==
    CASE log[i] = "setFindOptions" -> 1
      [] log[i] = "andWhere" ->
            IF \E j \in (i + 1)..Len(log) : log[j] = "setFindOptions" THEN 1 ELSE 4
      [] log[i] = "buildSelect" -> 2
      [] log[i] \in {"leftJoin", "innerJoin"} -> 3
      [] log[i] = "addOrderBy" -> 5
      [] log[i] = "select" -> 6
      [] OTHER -> 0

JoinPaths == {joins[i].name : i \in 1..Len(joins)}

C13_OnlyDeleted ==
    (op = "find" /\ optIn.given /\ optIn.onlyDeleted /\ deleteDateColumn # <<>>)
        => /\ findOptions.withDeleted
           /\ wheres # <<>>
           /\ wheres[1] = [query |-> <<ColTok(<<"User", DOT>> \o deleteDateColumn),
                                       OpTok("IS NOT NULL")>>,
                           params |-> EmptyMap]
           /\ (findOut.err = "" /\ optIn.where = Obj(<<AEq1>>))
                => /\ Len(wheres) = 2
                   /\ wheres[2].query # <<>>
                   /\ DOMAIN wheres[2].params # {}

\* onlyDeleted without withDeleted, with a user filter
C13_Witness ==
    /\ op = "find"
    /\ optIn.onlyDeleted /\ ~optIn.withDeleted
    /\ deleteDateColumn = <<"deletedAt">>
    /\ optIn.where = Obj(<<AEq1>>)
    /\ findOut.err = ""
    /\ Len(wheres) = 2

\* C14: ordering adds no join: when build returns, no join call comes after
\* an order-by call, and the builder holds one join for each path the
\* relations plan, also when an order field is relation-qualified.
C14_OrderAddsNoJoin ==
    (op = "find" /\ findOut.err = "")
        => /\ \A i, j \in 1..Len(findOut.log) :
                (i < j /\ findOut.log[i] = "addOrderBy")
                    => findOut.log[j] \notin {"leftJoin", "innerJoin"}
           /\ JoinPaths = PrefixClosure(ListedPaths(optIn.relations))
           /\ Len(joins) = Cardinality(PrefixClosure(ListedPaths(optIn.relations)))

\* ordered by profile.age with the relation profile: one join
C14_Witness ==
    /\ op = "find"
    /\ optIn.relations = RelString(Profile)
    /\ optIn.order = <<OrderBy(ProfileAge, "DESC")>>
    /\ findOut.err = ""
    /\ Len(joins) = 1
    /\ Len(orderBys) = 1

\* C15: the SELECT list build applies holds no column reference twice.
C15_SelectListHasNoDuplicates ==
    (op = "find" /\ findOut.err = "")
        => \A i, j \in 1..Len(selects) : selects[i] = selects[j] => i = j

\* C16: when no select is given, also when build is called without options,
\* the SELECT list build applies holds every column of the base entity.
C16_DefaultSelectsAllColumns ==
    (op = "find" /\ findOut.err = "" /\ optIn.select = <<>>)
        => \A i \in 1..Len(entityColumns(deleteDateColumn)) :
                <<"User", DOT>> \o entityColumns(deleteDateColumn)[i] \in Range(selects)

\* a relation path with every `.` replaced by `_`
Flattened(path) == JoinStr(Split(path), US)

\* no segment of the path holds an underscore
UnderscoreFree(path) == US \notin Range(path)

\* C17 as stated: two joins of different relation paths never have the same
\* alias, the alias of a path being the path with `.` replaced by `_`.
C17_AliasInjective ==
    op = "join"
        => \A i, j \in 1..Len(joins) :
                /\ joins[i].alias = Flattened(joins[i].name)
                /\ joins[i].name # joins[j].name => joins[i].alias # joins[j].alias

\* C17: the alias of a join is its relation path with `.` replaced by `_`, and
\* two joins of different relation paths whose segments hold no underscore
\* never have the same alias.
C17_AliasInjectiveWithoutUnderscore ==
    op = "join"
        => \A i, j \in 1..Len(joins) :
                /\ joins[i].alias = Flattened(joins[i].name)
                /\ (/\ joins[i].name # joins[j].name
                    /\ UnderscoreFree(joins[i].name) /\ UnderscoreFree(joins[j].name))
                        => joins[i].alias # joins[j].alias

\* profile.addresses.country and profile.country planned together
C17_Witness ==
    /\ op = "join"
    /\ relOut.err = ""
    /\ \E i, j \in 1..Len(joins) :
            /\ joins[i].name = ProfileAddressesCountry
            /\ joins[j].name = <<"profile", DOT, "country">>
            /\ joins[i].alias = <<"profile", US, "addresses", US, "country">>
            /\ joins[j].alias = <<"profile", US, "country">>

\* the reference `<alias(p)>.<f>` of a field path p.f, each part in quotes
QuotedReference(field, quote) ==
    <<quote>> \o Flattened(ParentPath(field)) \o <<quote, DOT, quote>>
        \o LastSegment(field) \o <<quote>>

\* C18: build resolves every multi-segment field path p.f of options.select
\* to the quoted reference `<alias(p)>.<f>`, and every multi-segment key of
\* options.order to the same reference without quotes, whatever was resolved
\* or joined before.
C18_ResolverUsesJoinAlias ==
    (op = "find" /\ findOut.err = "")
        => /\ \A i \in 1..Len(optIn.select) :
                Len(Split(optIn.select[i])) > 1
                    => QuotedReference(optIn.select[i], getIdentifierQuote(dbType))
                            \in Range(selectedFields)
           /\ \A i \in 1..Len(optIn.order) :
                Len(Split(optIn.order[i].key)) > 1
                    => orderBys[i].field
                            = Flattened(ParentPath(optIn.order[i].key)) \o <<DOT>>
                                \o LastSegment(optIn.order[i].key)

RECURSIVE Flatten(_, _)
Flatten(seqs, i) == IF i > Len(seqs) THEN <<>> ELSE seqs[i] \o Flatten(seqs, i + 1)

\* the operator leaves [op, val] of a filter, in the order they are compiled
RECURSIVE OperatorsOf(_)
OperatorsOf(cond) ==
    Flatten([i \in 1..Len(cond.entries) |->
                IF cond.entries[i].key \in {<<"$and">>, <<"$or">>}
                THEN (IF cond.entries[i].vk = "array"
                      THEN Flatten([j \in 1..Len(cond.entries[i].items) |->
                                        OperatorsOf(cond.entries[i].items[j])], 1)
                      ELSE <<>>)
                ELSE IF cond.entries[i].vk = "object" THEN cond.entries[i].ops
                ELSE <<>>], 1)

\* the first operator leaf of the filter given, which is where a compilation
\* can fail first
FirstOperator == OperatorsOf(whereIn)[1]

\* C19: compiling a filter whose first operator leaf has a key outside the
\* operator vocabulary fails with the bad-request error
\* "Unsupported operator: <key>", returns no predicate and no parameter,
\* and adds no where clause to the builder.
C19_UnsupportedOperatorFails ==
    (/\ op \in {"compile", "where"}
     /\ OperatorsOf(whereIn) # <<>>
     /\ FirstOperator.op \notin WhereOperatorEnum)
        => /\ whereOut.err = "BadRequest: Unsupported operator: " \o FirstOperator.op
           /\ whereOut.query = <<>>
           /\ whereOut.params = EmptyMap
           /\ wheres = <<>>

\* build({a: 1, b: {$regex: 1}}) failed naming $regex
C19_Witness ==
    /\ op = "where"
    /\ whereIn = Obj(<<AEq1, Ops("b", <<OpV("$regex", V1)>>)>>)
    /\ whereOut.err = "BadRequest: Unsupported operator: $regex"
    /\ wheres = <<>>

\* the operators whose value is a list
ArrayOperators == {"$in", "$notIn", "IN_L", "NOT_IN_L", "CONT_ARR", "INTERSECTS_ARR"}

\* C20: compiling a filter whose first operator leaf is an array-typed
\* operator with a value that is no array fails with the bad-request error
\* "Operator <key> requires an array value" and emits no SQL.
C20_ArrayOperatorNeedsArray ==
    (/\ op \in {"compile", "where"}
     /\ OperatorsOf(whereIn) # <<>>
     /\ FirstOperator.op \in ArrayOperators
     /\ ~FirstOperator.val.arr)
        => /\ whereOut.err
                = "BadRequest: Operator " \o FirstOperator.op \o " requires an array value"
           /\ whereOut.query = <<>>
           /\ wheres = <<>>

\* the array-contains and array-intersects operators
DialectGated == {"CONT_ARR", "INTERSECTS_ARR"}

\* C21: compiling a filter whose first operator leaf is an array-contains or
\* array-intersects operator with an array value, the empty array included,
\* fails with the bad-request error "Operator <key> is only supported for
\* PostgreSQL" and emits nothing on every dialect other than PostgreSQL, and
\* emits SQL without an error on PostgreSQL.
C21_ArrayOperatorsDialectGated ==
    (/\ op \in {"compile", "where"}
     /\ OperatorsOf(whereIn) # <<>>
     /\ FirstOperator.op \in DialectGated
     /\ FirstOperator.val.arr)
        => IF dbType \in {"postgres", "postgresql"}
           THEN whereOut.err = "" /\ whereOut.query # <<>>
           ELSE /\ whereOut.err = "BadRequest: Operator " \o FirstOperator.op
                                    \o " is only supported for PostgreSQL"
                /\ whereOut.query = <<>>
                /\ wheres = <<>>

\* what a filter compiles to on its own, by a new instance
AloneQuery(cond) == buildWhereQueryAndParams(cond, 0, EmptyMap, dbType).query

\* the elements of a group that compile to a fragment
Fragments(items) == {j \in 1..Len(items) : AloneQuery(items[j]) # <<>>}

\* the filter given is one $and / $or group with exactly one element that
\* compiles to a fragment, the elements before it compiling to nothing
SingleFragmentGroup ==
    /\ whereIn.kind = "object"
    /\ Len(whereIn.entries) = 1
    /\ whereIn.entries[1].key \in {<<"$and">>, <<"$or">>}
    /\ whereIn.entries[1].vk = "array"
    /\ Cardinality(Fragments(whereIn.entries[1].items)) = 1

TheFragment ==
    AloneQuery(whereIn.entries[1].items[CHOOSE j \in Fragments(whereIn.entries[1].items) : TRUE])

\* the filter given is one $and / $or group with more than one element that
\* compiles to a fragment
ManyFragmentGroup ==
    /\ whereIn.kind = "object"
    /\ Len(whereIn.entries) = 1
    /\ whereIn.entries[1].key \in {<<"$and">>, <<"$or">>}
    /\ whereIn.entries[1].vk = "array"
    /\ Cardinality(Fragments(whereIn.entries[1].items)) > 1

\* C23: a filter that is one $and / $or group with exactly one element that
\* compiles to a fragment compiles to that fragment in the one pair of
\* parentheses every group element gets; a group that joins more than one
\* fragment adds a second pair around the joined result.
C23_SingleFragmentGroupNotWrappedAgain ==
    (op = "compile" /\ whereOut.err = "")
        => /\ SingleFragmentGroup => whereOut.query = Paren(TheFragment)
           /\ ManyFragmentGroup
                => /\ SubSeq(whereOut.query, 1, 2) = <<LP, LP>>
                   /\ SubSeq(whereOut.query, Len(whereOut.query) - 1, Len(whereOut.query))
                        = <<RP, RP>>

\* {$or: [{}, {a: 1}]} compiled to (a = :p0)
C23_Witness ==
    /\ op = "compile"
    /\ whereIn = Obj(<<Group("$or", <<Obj(<<>>), Obj(<<AEq1>>)>>)>>)
    /\ Len(whereOut.query) = 5
    /\ whereOut.query[1] = LP /\ whereOut.query[2].t = "col" /\ whereOut.query[5] = RP

\* C23 as stated: a filter that is one $and / $or group with exactly one
\* element that compiles to a fragment compiles to that fragment itself,
\* without parentheses around it.
C23_SingleFragmentGroupUnwrapped ==
    (op = "compile" /\ whereOut.err = "" /\ SingleFragmentGroup)
        => whereOut.query = TheFragment

\* the text cast of the dialect around a column
TextCast(col, db) ==
    CASE db = "postgres" -> col \o <<"::text">>
      [] db = "sqlite" -> <<"CAST(">> \o col \o <<" AS TEXT)">>
      [] db \in {"mysql", "mariadb"} -> <<"CAST(">> \o col \o <<" AS CHAR)">>
      [] db = "mssql" -> <<"CAST(">> \o col \o <<" AS NVARCHAR(MAX))">>
      [] db = "oracle" -> <<"TO", US, "CHAR(">> \o col \o <<")">>
      [] OTHER -> <<"CAST(">> \o col \o <<" AS VARCHAR)">>

\* the case-sensitive LIKE family
LikeOperators == {"$like", "$notLike", "STARTS_WITH", "ENDS_WITH"}

\* the case-insensitive LIKE family and the case-insensitive membership
LowerOperators == {"$iLike", "$notIlike", "ISTARTS_WITH", "IENDS_WITH", "IN_L", "NOT_IN_L"}

\* the left-hand side the operator is to be emitted with
CastColumn(operator, col, db) ==
    IF operator \in LikeOperators THEN TextCast(col, db)
    ELSE IF operator \in LowerOperators THEN <<"LOWER(">> \o TextCast(col, db) \o <<")">>
    ELSE col

\* the left-hand sides of the fragments emitted for the field b
ColumnsEmitted ==
    {whereOut.query[i].s : i \in {j \in 1..Len(whereOut.query) : whereOut.query[j].t = "col"}}
        \ {ColumnOf(<<"a">>, dbType)}

\* the operator emits the `1 = 0` guard instead of a comparison
Guarded(leaf) ==
    /\ leaf.op \in {"$in", "IN_L", "CONT_ARR", "INTERSECTS_ARR"}
    /\ leaf.val.arr /\ leaf.val.items = <<>>

NamesOf(from, below) ==
    UNION {{paramsPrefix \o <<ToString(n)>>,
            paramsPrefix \o <<ToString(n), US, "0">>,
            paramsPrefix \o <<ToString(n), US, "1">>} : n \in from..(below - 1)}

\* C25: on one instance the parameter counter never decreases, the
\* parameters a call binds are named by counter values the call itself
\* consumed, and no two where clauses of the builder bind the same name.
C25_ParameterNamesNeverReused ==
    /\ [][/\ paramIndex' >= paramIndex
          /\ op' \in {"compile", "where"}
                => DOMAIN whereOut'.params \subseteq NamesOf(paramIndex, paramIndex')]_vars
    /\ [](\A i, j \in 1..Len(wheres) :
            i # j => DOMAIN wheres[i].params \cap DOMAIN wheres[j].params = {})

\* two builds with a parameter each on one instance
C25_Witness ==
    /\ op = "where"
    /\ calls = 2
    /\ Len(wheres) = 2
    /\ DOMAIN wheres[1].params = {paramsPrefix \o <<"0">>}
    /\ DOMAIN wheres[2].params = {paramsPrefix \o <<"1">>}

\* C26: a where build whose compilation raises an error returns no predicate
\* and no parameter and leaves the where clauses of the builder as they
\* were; a find build that raises an error has added at most its own
\* soft-delete predicate.
C26_WhereIsAllOrNothing ==
    [][/\ (op' = "where" /\ whereOut'.err # "")
            => /\ wheres' = wheres
               /\ whereOut'.query = <<>>
               /\ whereOut'.params = EmptyMap
       /\ (op' = "find" /\ findOut'.err # "")
            => wheres' \in {wheres, Append(wheres, OnlyDeletedClause(deleteDateColumn))}]_vars

\* build({a: 1, b: {$regex: 1}}) failed on a builder that had one where
\* clause, which is still the only one
C26_Witness ==
    /\ op = "where"
    /\ calls = 2
    /\ whereIn = Obj(<<AEq1, Ops("b", <<OpV("$regex", V1)>>)>>)
    /\ whereOut.err # ""
    /\ Len(wheres) = 1

\* a $and / $or key whose value is no array, or an empty one
IsLooseGroup(e) ==
    /\ e.key \in {<<"$and">>, <<"$or">>}
    /\ e.vk # "array" \/ e.items = <<>>

NotLooseGroup(e) == ~IsLooseGroup(e)

\* the filter without its loose groups
WithoutLooseGroups(cond) == Obj(SelectSeq(cond.entries, NotLooseGroup))

\* C27: a filter with a $and / $or key whose value is one filter object or an
\* empty array compiles, without an error, to the predicate and the
\* parameters of the filter without that key.
C27_LooseGroupIsDropped ==
    (/\ op \in {"compile", "where"}
     /\ whereIn.kind = "object"
     /\ \E i \in 1..Len(whereIn.entries) : IsLooseGroup(whereIn.entries[i]))
        => /\ whereOut.err = ""
           /\ whereOut.query = AloneQuery(WithoutLooseGroups(whereIn))
           /\ whereOut.params
                = buildWhereQueryAndParams(WithoutLooseGroups(whereIn), 0, EmptyMap, dbType).params
           /\ Len(wheres) = IF op = "where" /\ whereOut.query # <<>> THEN 1 ELSE 0

\* build({b: 2, $and: {a: {$regex: 1}}}) added b = :p0 alone
C27_Witness ==
    /\ op = "where"
    /\ whereIn = Obj(<<BEq2, GroupObject("$and", Obj(<<Ops("a", <<OpV("$regex", V1)>>)>>))>>)
    /\ whereOut.err = ""
    /\ Len(wheres) = 1
    /\ Len(wheres[1].query) = 3
    /\ DOMAIN wheres[1].params = {paramsPrefix \o <<"0">>}

\* s is the beginning of t
IsPrefix(s, t) == Len(s) <= Len(t) /\ SubSeq(t, 1, Len(s)) = s

\* C29: no call on one instance removes a registered column, a join or a
\* predicate, and the SELECT list a find build leaves holds every column
\* that was registered before it.
C29_RegisteredColumnsAccumulate ==
    [][/\ Range(selectedFields) \subseteq Range(selectedFields')
       /\ IsPrefix(joins, joins')
       /\ IsPrefix(wheres, wheres')
       /\ (op' = "find" /\ findOut'.err = "")
            => \A i \in 1..Len(selectedFields) :
                    cleanFieldName(selectedFields[i], dbType) \in Range(selects')]_vars

\* a second build that selects one column on an instance that holds more
\* columns, a join and a predicate
C29_Witness ==
    /\ op = "find"
    /\ calls = 2
    /\ findOut.err = ""
    /\ Len(optIn.select) = 1
    /\ optIn.relations.kind = "none"
    /\ optIn.where.kind = "undefined"
    /\ Len(selects) > 1
    /\ Len(joins) > 0
    /\ Len(wheres) > 0

\* what call c builds when no other call is made
Alone(c) ==
    IF c.kind = "findMany"
    THEN FindManyBuilt(c.query, deleteDateColumn, dbType, NewFindQueryBuilder)
    ELSE FindOneBuilt(c.id, c.query, deleteDateColumn, dbType, NewFindQueryBuilder)

ClauseConstrainsId(c, id) ==
    \E k \in 1..(Len(c.query) - 2) :
        /\ c.query[k].t = "col"
        /\ cleanFieldName(c.query[k].s, dbType) = rootAlias \o <<DOT, "id">>
        /\ c.query[k + 1] = OpTok("=")
        /\ c.query[k + 2].t = "param"
        /\ c.query[k + 2].s \in DOMAIN c.params
        /\ c.params[c.query[k + 2].s] = Scalar(id)

ConstrainsId(b, id) == \E i \in 1..Len(b.wheres) : ClauseConstrainsId(b.wheres[i], id)

\* C28: the query a findOne call builds compares the id column with the
\* requested id, whatever query.where is.
C28_FindOneConstrainsId ==
    \A r \in DOMAIN requests :
        (requests[r].kind = "findOne" /\ requests[r].pc # "idle")
            => ConstrainsId(requests[r].b, requests[r].id)

\* a parameter given as the boolean false or the string false
SuppliedFalse(value) == value \in {Str(FalseString), Bool(FALSE)}

\* C30: parse returns a supplied withDeleted / onlyDeleted as a boolean, and
\* a supplied onlyDeleted=false is returned falsy and adds no only-deleted
\* predicate, whatever withDeleted is.
C30_OnlyDeletedFalseStaysFalse ==
    \A r \in DOMAIN requests :
        requests[r].pc \in {"hook", "failed"}
            => /\ requests[r].query.withDeleted.t # "undefined"
                    => requests[r].options.withDeleted.t = "boolean"
               /\ requests[r].query.onlyDeleted.t # "undefined"
                    => requests[r].options.onlyDeleted.t = "boolean"
               /\ SuppliedFalse(requests[r].query.onlyDeleted)
                    => /\ ~Truthy(requests[r].options.onlyDeleted)
                       /\ OnlyDeletedClause(deleteDateColumn) \notin Range(requests[r].b.wheres)

====
